---- MODULE Spec2Model ----
(***************************************************************************)
(* Knowledge Synthesizer: the vector index (in-memory and read-through),   *)
(* the embedding service, the clustering use case and the synthesis use    *)
(* case, as a state machine.                                               *)
(*                                                                         *)
(* Numbers.  A similarity is a JavaScript double in the code.  It is       *)
(* modelled exactly, as an integer number of 1/SCALE: the vectors of       *)
(* VecPool have integer norms that divide SCALE, so every cosine the model *)
(* computes is an exact multiple of 1/SCALE.  A coherence score is a mean  *)
(* of similarities and is kept as a fraction [num, den] of such units.     *)
(* Rounding of doubles is not modelled.                                    *)
(*                                                                         *)
(* Strings.  A path, a folder or a tag is a sequence of one-character      *)
(* strings, so that startsWith is a real prefix test; a file's basename    *)
(* (which is also its note id) is one token: it never holds a '/'.         *)
(***************************************************************************)
EXTENDS Integers, Sequences, FiniteSets, TLC

VARIABLES
    kind,             \* which IVectorStore the plugin wired: "memory" or "vault"
    vectors,          \* InMemoryVectorStore.vectors, in insertion order
    cache,            \* VaultEmbeddingsVectorStore.cache, in insertion order
    snapshot,         \* the external embedding files the read-through index loads
    vault,            \* the markdown files of the Document Store
    excludedFolders,  \* ClusterNotesUseCase.excludedFolders
    call,             \* the last index / embedding-service query and its outcome
    cluster,          \* the outcome of the last clustering call
    synth,            \* the outcome of the last SynthesizeNotesUseCase.execute
    suggested,        \* the outcome of the last SuggestSynthesisUseCase call
    saved,            \* what saveResult wrote to the Document Store, and the calls
    clock,            \* Date.now() and the read-through index's load bookkeeping
    plugin,           \* the plugin's settings and the use cases it has wired
    embeds,           \* the embedNote / embedNotes calls in progress, and their log
    reloads           \* the loadFromVaultEmbeddings calls in progress, and their log

vars == <<kind, vectors, cache, snapshot, vault, excludedFolders, call, cluster, synth,
          suggested, saved, clock, plugin, embeds, reloads>>

\* the state of the suggestion use case, of persistence, of time, of the plugin
\* and of the asynchronous calls in progress
wiring == <<suggested, saved, clock, plugin, embeds, reloads>>

----------------------------------------------------------------------------
(* Units, program constants and bounds *)

SCALE == 4 * 25

DEFAULT_LIMIT == 10

DEFAULT_THRESHOLD == 30

MaxStored == 2

MaxLimit == 2

MaxSize == 2

MaxManual == 2

NoteIds == {"n1", "n2", "n3"}

\* stored vectors: norms 1, 1, 5 and a vector of another dimensionality
VecPool == {<<1, 0>>, <<-1, 0>>, <<3, 4>>, <<1>>}

\* vectors the Embedding Provider returns: one dimensionality per provider
EmbedPool == {<<1, 0>>, <<-1, 0>>, <<3, 4>>}

\* query vectors handed to search
QueryPool == {<<1, 0>>, <<3, 4>>, <<0, 0>>}

Thresholds == {0 - SCALE, 60}

ExcludeLists == {<<"n2", "n1">>}

\* exclusion lists handed to findSimilarByNoteId
FindExcludeLists == {<<"n1">>}

----------------------------------------------------------------------------
(* Sequences and strings *)

Range(s) == {s[i] : i \in 1..Len(s)}

Min(a, b) == IF a < b THEN a ELSE b

Contains(s, x) == \E i \in 1..Len(s) : s[i] = x

\* String.prototype.startsWith
StartsWith(s, p) == Len(p) <= Len(s) /\ SubSeq(s, 1, Len(p)) = p

\* Array.prototype.slice(0, n) for n >= 0
Take(s, n) == SubSeq(s, 1, Min(n, Len(s)))

\* all sequences without repetition over S, of length at most n
RECURSIVE SeqsNoRep(_, _)
SeqsNoRep(S, n) ==
    IF n = 0 THEN {<<>>}
    ELSE LET shorter == SeqsNoRep(S, n - 1)
         IN  shorter \cup {Append(s, x) : s \in shorter, x \in S}

----------------------------------------------------------------------------
(* The vector index *)

Sqrt(n) == CHOOSE r \in 0..n : r * r = n

RECURSIVE Dot(_, _)
Dot(a, b) == IF a = <<>> THEN 0 ELSE Head(a) * Head(b) + Dot(Tail(a), Tail(b))

\* the loop and the division of cosineSimilarity, for vectors of equal length
Cosine(a, b) ==
    LET magnitude == Sqrt(Dot(a, a)) * Sqrt(Dot(b, b))
    IN  IF magnitude = 0 THEN 0 ELSE (Dot(a, b) * SCALE) \div magnitude

\* options destructuring with defaults
OptLimit(options) ==
    IF "limit" \in DOMAIN options THEN options.limit ELSE DEFAULT_LIMIT

OptThreshold(options) ==
    IF "threshold" \in DOMAIN options THEN options.threshold ELSE DEFAULT_THRESHOLD

OptExclude(options) ==
    IF "excludeNoteIds" \in DOMAIN options THEN options.excludeNoteIds ELSE <<>>

\* Map.set: a new key goes last, an existing key keeps its place
MapSet(m, e) ==
    IF \E i \in 1..Len(m) : m[i].noteId = e.noteId
    THEN [i \in 1..Len(m) |-> IF m[i].noteId = e.noteId THEN e ELSE m[i]]
    ELSE Append(m, e)

MapDelete(m, noteId) == LET Keep(e) == e.noteId # noteId IN SelectSeq(m, Keep)

MapHas(m, noteId) == \E i \in 1..Len(m) : m[i].noteId = noteId

MapGet(m, noteId) == m[CHOOSE i \in 1..Len(m) : m[i].noteId = noteId]

\* Array.prototype.sort((a, b) => b.similarity - a.similarity): stable
RECURSIVE InsertDesc(_, _)
InsertDesc(sorted, r) ==
    IF sorted = <<>> THEN <<r>>
    ELSE IF Head(sorted).similarity >= r.similarity
         THEN <<Head(sorted)>> \o InsertDesc(Tail(sorted), r)
         ELSE <<r>> \o sorted

RECURSIVE SortDesc(_)
SortDesc(s) ==
    IF s = <<>> THEN <<>>
    ELSE InsertDesc(SortDesc(SubSeq(s, 1, Len(s) - 1)), s[Len(s)])

Hit(e, similarity) ==
    [noteId |-> e.noteId, notePath |-> e.notePath, similarity |-> similarity]

MeetsThreshold_Flipped(similarity, threshold) == similarity <= threshold

\* the threshold test of both search loops
MeetsThreshold(similarity, threshold) == similarity >= threshold

\* the exclusion test of both search loops
IsExcluded(exclude, noteId) == Contains(exclude, noteId)

SortAndSlice_SliceFirst(results, limit) == SortDesc(Take(results, limit))

\* the final sort and slice of both search methods
SortAndSlice(results, limit) == Take(SortDesc(results), limit)

\* InMemoryVectorStore.search: cosineSimilarity throws on a length mismatch
InMemorySearch(m, queryVector, options) ==
    LET limit == OptLimit(options)
        threshold == OptThreshold(options)
        exclude == OptExclude(options)
        Visited(e) == ~IsExcluded(exclude, e.noteId)
        visited == SelectSeq(m, Visited)
        Match(e) == MeetsThreshold(Cosine(queryVector, e.vector), threshold)
        ToHit(e) == Hit(e, Cosine(queryVector, e.vector))
        matched == SelectSeq(visited, Match)
    IN  IF \E i \in 1..Len(visited) : Len(visited[i].vector) # Len(queryVector)
        THEN [status |-> "throw", results |-> <<>>]
        ELSE [status |-> "ok",
              results |-> SortAndSlice([i \in 1..Len(matched) |-> ToHit(matched[i])],
                                       limit)]

\* VaultEmbeddingsVectorStore.search: a length mismatch is skipped
VaultSearch(m, queryVector, options) ==
    LET limit == OptLimit(options)
        threshold == OptThreshold(options)
        exclude == OptExclude(options)
        Match(e) ==
            /\ ~IsExcluded(exclude, e.noteId)
            /\ Len(queryVector) = Len(e.vector)
            /\ MeetsThreshold(Cosine(queryVector, e.vector), threshold)
        ToHit(e) == Hit(e, Cosine(queryVector, e.vector))
        matched == SelectSeq(m, Match)
    IN  [status |-> "ok",
         results |-> SortAndSlice([i \in 1..Len(matched) |-> ToHit(matched[i])],
                                  limit)]

\* the Map behind the wired IVectorStore
StoreMap == IF kind = "memory" THEN vectors ELSE cache

\* IVectorStore.search of the wired store, holding m
Search(m, queryVector, options) ==
    IF kind = "memory"
    THEN InMemorySearch(m, queryVector, options)
    ELSE VaultSearch(m, queryVector, options)

FindSimilarByNoteId_SelfIncluded(m, noteId, options) ==
    IF ~MapHas(m, noteId)
    THEN [status |-> "ok", results |-> <<>>]
    ELSE Search(m, MapGet(m, noteId).vector, options)

\* EmbeddingService.findSimilarByNoteId, the wired store holding m
FindSimilarByNoteId(m, noteId, options) ==
    IF ~MapHas(m, noteId)
    THEN [status |-> "ok", results |-> <<>>]
    ELSE LET searchOptions ==
                 [k \in DOMAIN options \cup {"excludeNoteIds"} |->
                     IF k = "excludeNoteIds"
                     THEN Append(OptExclude(options), noteId)
                     ELSE options[k]]
         IN  Search(m, MapGet(m, noteId).vector, searchOptions)

----------------------------------------------------------------------------
(* The Document Store *)

FolderA == <<"a">>

FolderAB == <<"a", "/", "b">>

FolderAb == <<"a", "b">>

FolderC == <<"c">>

TagX == <<"x">>

TagXY == <<"x", "/", "y">>

TagZ == <<"z">>

F1 == [folder |-> FolderA, basename |-> "n1", tags |-> {TagX}]

F2 == [folder |-> FolderAB, basename |-> "n2", tags |-> {TagXY}]

F3 == [folder |-> FolderAb, basename |-> "n1", tags |-> {TagX}]

F4 == [folder |-> FolderC, basename |-> "n3", tags |-> {TagZ}]

FolderD == <<"d">>

TagT == <<"t">>

F5 == [folder |-> FolderD, basename |-> "n4", tags |-> {TagT}]

F6 == [folder |-> FolderD, basename |-> "n5", tags |-> {TagT}]

F7 == [folder |-> FolderD, basename |-> "n6", tags |-> {TagT}]

F8 == [folder |-> FolderD, basename |-> "n7", tags |-> {TagT}]

F9 == [folder |-> FolderD, basename |-> "n8", tags |-> {TagT}]

\* vault.getMarkdownFiles() lists the files in this order
FileOrder == <<F1, F2, F3, F4, F5, F6, F7, F8, F9>>

FilePool == {F1, F2, F3, F4}

Path(f) == f.folder \o <<"/", f.basename, ".md">>

\* the entries handed to IVectorStore.store, one path per note id
StoreInputs ==
    {[noteId |-> f.basename, notePath |-> Path(f), vector |-> v] :
        f \in {F1, F2, F4}, v \in VecPool}

----------------------------------------------------------------------------
(* Index operations *)

NoCluster == [status |-> "none"]

NoSynth == [status |-> "none"]

\* no suggestion call has been answered
NoSuggested == [status |-> "none"]

\* saveResult has written nothing and has not been called
NoSaved == [files |-> {}, folders |-> {}, calls |-> <<>>]

\* the clock is not observed: the index is used without its time bookkeeping
NoClock == [now |-> 0, lastCacheUpdate |-> 0, initialized |-> FALSE]

\* the plugin object before onload: no settings read, no service wired
NoPlugin == [status |-> "none"]

\* no embedNote / embedNotes call was made
NoEmbeds == [tasks |-> <<>>, log |-> <<>>]

\* no loadFromVaultEmbeddings call was made; index.json exists and parses
NoReloads == [tasks |-> <<>>, finished |-> <<>>, indexFile |-> "present", writes |-> 0]

Idle == [op |-> "none", queryVector |-> <<>>, noteId |-> "", options |-> <<>>,
         status |-> "ok", results |-> <<>>]

\* every options object: each field present or left undefined
OptionsOf(limits, thresholds, excludes) ==
    UNION { UNION { {[k \in ks |->
                        CASE k = "limit" -> l
                          [] k = "threshold" -> t
                          [] OTHER -> x] :
                     l \in limits, t \in thresholds, x \in excludes} :
                   ks \in SUBSET {"limit", "threshold", "excludeNoteIds"} } }

SearchOptions == OptionsOf(0..MaxLimit, Thresholds, ExcludeLists)

FindOptions == OptionsOf({MaxLimit}, {0 - SCALE}, FindExcludeLists)

\* No call is being answered: JavaScript runs each synchronous call to its
\* return before anything else runs.
Quiet == call = Idle /\ cluster = NoCluster /\ synth = NoSynth

\* InMemoryVectorStore.store / VaultEmbeddingsVectorStore.store (a no-op)
Store(embedding) ==
    /\ Quiet
    /\ kind = "memory" => Len(MapSet(vectors, embedding)) <= MaxStored
    /\ vectors' = IF kind = "memory" THEN MapSet(vectors, embedding) ELSE vectors
    /\ UNCHANGED wiring
    /\ UNCHANGED <<kind, cache, snapshot, vault, excludedFolders, call, cluster, synth>>

\* InMemoryVectorStore.remove / VaultEmbeddingsVectorStore.remove (a no-op)
Remove(noteId) ==
    /\ Quiet
    /\ vectors' = IF kind = "memory" THEN MapDelete(vectors, noteId) ELSE vectors
    /\ UNCHANGED wiring
    /\ UNCHANGED <<kind, cache, snapshot, vault, excludedFolders, call, cluster, synth>>

\* InMemoryVectorStore.clear / VaultEmbeddingsVectorStore.clear (a no-op)
Clear ==
    /\ Quiet
    /\ vectors' = IF kind = "memory" THEN <<>> ELSE vectors
    /\ UNCHANGED wiring
    /\ UNCHANGED <<kind, cache, snapshot, vault, excludedFolders, call, cluster, synth>>

\* loadFromVaultEmbeddings: the snapshot replaces the cache and the load time
\* is noted, or the index file cannot be read and the cache is cleared
LoadFromVaultEmbeddings(readable) ==
    IF readable
    THEN [cache |-> snapshot, lastCacheUpdate |-> clock.now]
    ELSE [cache |-> <<>>, lastCacheUpdate |-> clock.lastCacheUpdate]

\* VaultEmbeddingsVectorStore.refresh
Refresh ==
    \E readable \in BOOLEAN :
        LET loaded == LoadFromVaultEmbeddings(readable)
        IN  /\ Quiet
            /\ kind = "vault"
            /\ cache' = loaded.cache
            /\ clock' = [clock EXCEPT !.lastCacheUpdate = loaded.lastCacheUpdate]
            /\ UNCHANGED <<suggested, saved, plugin, embeds, reloads>>
            /\ UNCHANGED <<kind, vectors, snapshot, vault, excludedFolders, call,
                           cluster, synth>>

\* IVectorStore.search
SearchCall(queryVector, options) ==
    LET out == Search(StoreMap, queryVector, options)
    IN  /\ Quiet
        /\ call' = [op |-> "search", queryVector |-> queryVector, noteId |-> "",
                    options |-> options, status |-> out.status,
                    results |-> out.results]
        /\ UNCHANGED wiring
        /\ UNCHANGED <<kind, vectors, cache, snapshot, vault, excludedFolders,
                       cluster, synth>>

\* EmbeddingService.findSimilarByNoteId
FindSimilarCall(noteId, options) ==
    LET out == FindSimilarByNoteId(StoreMap, noteId, options)
    IN  /\ Quiet
        /\ call' = [op |-> "findSimilar", queryVector |-> <<>>, noteId |-> noteId,
                    options |-> options, status |-> out.status,
                    results |-> out.results]
        /\ UNCHANGED wiring
        /\ UNCHANGED <<kind, vectors, cache, snapshot, vault, excludedFolders,
                       cluster, synth>>

\* the query returns (or throws) to its caller
ReturnCall ==
    /\ ~Quiet
    /\ call' = Idle
    /\ UNCHANGED wiring
    /\ UNCHANGED <<kind, vectors, cache, snapshot, vault, excludedFolders,
                   cluster, synth>>

\* what the embedding files on disk may hold: one entry per note id
Snapshots ==
    {s \in SeqsNoRep(StoreInputs, MaxStored) :
        \A i, j \in 1..Len(s) : i # j => s[i].noteId # s[j].noteId}

InitSearch ==
    /\ kind \in {"memory", "vault"}
    /\ vectors = <<>>
    /\ cache = <<>>
    /\ snapshot \in IF kind = "vault" THEN Snapshots ELSE {<<>>}
    /\ vault = FilePool
    /\ excludedFolders = {}
    /\ call = Idle
    /\ cluster = NoCluster
    /\ synth = NoSynth
    /\ suggested = NoSuggested
    /\ saved = NoSaved
    /\ clock = NoClock
    /\ embeds = NoEmbeds
    /\ reloads = NoReloads
    /\ plugin = NoPlugin

NextSearch ==
    \/ \E e \in StoreInputs : Store(e)
    \/ \E id \in NoteIds : Remove(id)
    \/ Clear
    \/ Refresh
    \/ \E q \in QueryPool, o \in SearchOptions : SearchCall(q, o)
    \/ \E id \in NoteIds, o \in FindOptions : FindSimilarCall(id, o)
    \/ ReturnCall

SpecSearch == InitSearch /\ [][NextSearch]_vars

----------------------------------------------------------------------------
(* Claims about the index: C1 - C4 *)

Answered == call.op # "none"

\* the vector the answered query compared the stored vectors with
CallVector ==
    IF call.op = "search" THEN call.queryVector
    ELSE IF MapHas(StoreMap, call.noteId) THEN MapGet(StoreMap, call.noteId).vector
    ELSE <<>>

CallThreshold ==
    IF "threshold" \in DOMAIN call.options THEN call.options.threshold ELSE DEFAULT_THRESHOLD

CallLimit ==
    IF "limit" \in DOMAIN call.options THEN call.options.limit ELSE DEFAULT_LIMIT

\* the ids the caller excluded, the queried note included
CallExcluded ==
    (IF "excludeNoteIds" \in DOMAIN call.options
     THEN Range(call.options.excludeNoteIds) ELSE {})
    \cup (IF call.op = "findSimilar" THEN {call.noteId} ELSE {})

Comparable(e) == Len(e.vector) = Len(CallVector)

\* positions of the stored vectors the query may return
EligiblePositions ==
    {i \in 1..Len(StoreMap) :
        /\ StoreMap[i].noteId \notin CallExcluded
        /\ Comparable(StoreMap[i])
        /\ Cosine(CallVector, StoreMap[i].vector) >= CallThreshold}

StoredSimilarity(noteId) == Cosine(CallVector, MapGet(StoreMap, noteId).vector)

\* C1: every returned entry is a stored vector whose similarity to the query is
\* at least the threshold, and the similarity reported is that similarity
C1_ThresholdRespected ==
    Answered =>
        \A i \in 1..Len(call.results) :
            /\ call.results[i].similarity >= CallThreshold
            /\ MapHas(StoreMap, call.results[i].noteId)
            /\ Comparable(MapGet(StoreMap, call.results[i].noteId))
            /\ StoredSimilarity(call.results[i].noteId) = call.results[i].similarity

\* a search answered with an entry while a comparable, not excluded stored
\* vector lies strictly below the threshold
C1_Witness ==
    /\ call.op = "search"
    /\ call.results # <<>>
    /\ \E i \in 1..Len(StoreMap) :
          /\ StoreMap[i].noteId \notin CallExcluded
          /\ Comparable(StoreMap[i])
          /\ Cosine(CallVector, StoreMap[i].vector) < CallThreshold

\* C2: no returned entry has an excluded id, and findSimilarByNoteId(id) never
\* returns id itself
C2_ExcludedNeverReturned ==
    Answered =>
        \A i \in 1..Len(call.results) : call.results[i].noteId \notin CallExcluded

\* findSimilarByNoteId answered with an entry for a caller that passed an
\* exclusion list without the queried note
C2_Witness ==
    /\ call.op = "findSimilar"
    /\ "excludeNoteIds" \in DOMAIN call.options
    /\ call.noteId \notin Range(call.options.excludeNoteIds)
    /\ call.results # <<>>

\* C3: at most limit entries, by non-increasing similarity, exactly
\* min(limit, eligible) of them, and no eligible vector left out beats one returned
C3_BestLimitSorted ==
    (Answered /\ call.status = "ok") =>
        /\ Len(call.results) = Min(CallLimit, Cardinality(EligiblePositions))
        /\ \A i \in 1..Len(call.results) - 1 :
              call.results[i].similarity >= call.results[i + 1].similarity
        /\ \A p \in EligiblePositions :
              (\A i \in 1..Len(call.results) :
                    call.results[i].noteId # StoreMap[p].noteId)
              => \A i \in 1..Len(call.results) :
                    call.results[i].similarity >= Cosine(CallVector, StoreMap[p].vector)

\* a search cut by its limit: an eligible vector of lower similarity is left out
C3_Witness ==
    /\ call.op = "search"
    /\ call.status = "ok"
    /\ call.results # <<>>
    /\ Cardinality(EligiblePositions) > CallLimit
    /\ \E p \in EligiblePositions :
          Cosine(CallVector, StoreMap[p].vector) < call.results[1].similarity

\* some stored vector the query visits has another length than the query vector
MismatchVisited ==
    \E i \in 1..Len(StoreMap) :
        /\ StoreMap[i].noteId \notin CallExcluded
        /\ ~Comparable(StoreMap[i])

\* C4: a stored vector of another length than the query vector raises no error;
\* it is left out and the eligible vectors are still returned
C4_MismatchSkipped ==
    (Answered /\ CallVector # <<>> /\ MismatchVisited) =>
        /\ call.status = "ok"
        /\ Len(call.results) = Min(CallLimit, Cardinality(EligiblePositions))
        /\ \A i \in 1..Len(call.results) :
              Comparable(MapGet(StoreMap, call.results[i].noteId))

----------------------------------------------------------------------------
(* The Document Store: ObsidianNoteRepository *)

\* fileToNoteContent: the note id is the basename; the title falls back to it
FileToNoteContent(f) ==
    [noteId |-> f.basename, notePath |-> Path(f), title |-> f.basename]

\* the markdown files of the vault, as getMarkdownFiles lists them
Files == LET Present(f) == f \in vault IN SelectSeq(FileOrder, Present)

NotesOf(files) == [i \in 1..Len(files) |-> FileToNoteContent(files[i])]

GetNote_AllNamed(noteId) ==
    LET Named(f) == f.basename = noteId
    IN  NotesOf(SelectSeq(Files, Named))

\* getNote: the first file with that basename; <<>> stands for null
GetNote(noteId) ==
    LET Named(f) == f.basename = noteId
    IN  Take(NotesOf(SelectSeq(Files, Named)), 1)

\* getNoteByPath
GetNoteByPath(path) ==
    LET At(f) == Path(f) = path
    IN  Take(NotesOf(SelectSeq(Files, At)), 1)

\* hasTag: the tag itself or a tag nested under it
HasTag(f, tag) ==
    \E t \in f.tags : t = tag \/ StartsWith(t, tag \o <<"/">>)

\* getNotesByTag
GetNotesByTag(tag) ==
    LET Tagged(f) == HasTag(f, tag) IN NotesOf(SelectSeq(Files, Tagged))

\* getNotesByFolder: the folder itself or a folder below it
GetNotesByFolder(folder) ==
    LET Inside(f) == f.folder = folder \/ StartsWith(f.folder, folder \o <<"/">>)
    IN  NotesOf(SelectSeq(Files, Inside))

----------------------------------------------------------------------------
(* EmbeddingService.embedNote / embedNotes *)

\* the inputs without a stored vector
ToEmbed(m, notes) ==
    LET Missing(n) == ~MapHas(m, n.noteId) IN SelectSeq(notes, Missing)

RECURSIVE StoreAll(_, _, _)
\* the store loop after a batch: vectorStore.store for each input, in order
StoreAll(m, batch, vecs) ==
    IF batch = <<>> THEN m
    ELSE StoreAll(MapSet(m, [noteId |-> Head(batch).noteId,
                             notePath |-> Head(batch).notePath,
                             vector |-> Head(vecs)]),
                  Tail(batch), Tail(vecs))

\* what the Embedding Provider may answer to a request for n texts
Responses(n) ==
    IF n = 0 THEN {[ok |-> TRUE, vecs |-> <<>>]}
    ELSE {[ok |-> TRUE, vecs |-> v] : v \in [1..n -> EmbedPool]}
         \cup {[ok |-> FALSE, vecs |-> <<>>]}

\* the content of the wired store after embedNotes(notes) answered by resp (the
\* inputs of the model fit one batch of 10); store is a no-op on the
\* read-through index
EmbedNotes(m, notes, resp) ==
    IF kind = "memory" /\ resp.ok THEN StoreAll(m, ToEmbed(m, notes), resp.vecs) ELSE m

----------------------------------------------------------------------------
(* ClusterNotesUseCase *)

\* isExcludedPath
IsExcludedPath(notePath) ==
    \E excluded \in excludedFolders : StartsWith(notePath, excluded \o <<"/">>)

FilterExcludedNotes_Unfiltered(notes) == notes

\* filterExcludedNotes
FilterExcludedNotes(notes) ==
    IF excludedFolders = {} THEN notes
    ELSE LET Kept(n) == ~IsExcludedPath(n.notePath) IN SelectSeq(notes, Kept)

\* createMembers
CreateMembers(notes) ==
    [i \in 1..Len(notes) |->
        [noteId |-> notes[i].noteId, notePath |-> notes[i].notePath,
         title |-> notes[i].title, similarity |-> SCALE]]

One == [num |-> SCALE, den |-> 1]

Zero == [num |-> 0, den |-> 1]

RECURSIVE SumSimilarity(_)
SumSimilarity(results) ==
    IF results = <<>> THEN 0
    ELSE Head(results).similarity + SumSimilarity(Tail(results))

\* the neighbours of notes[i] that calculateCoherence counts
CoherencePairs(m, notes, i) ==
    LET similarNotes ==
            FindSimilarByNoteId(m, notes[i].noteId, [limit |-> Len(notes) - 1]).results
        IsMember(r) == \E j \in 1..Len(notes) : notes[j].noteId = r.noteId
    IN  SelectSeq(similarNotes, IsMember)

RECURSIVE CoherenceTotal(_, _, _)
CoherenceTotal(m, notes, i) ==
    IF i = 0 THEN [total |-> 0, pairs |-> 0]
    ELSE LET rest == CoherenceTotal(m, notes, i - 1)
             mine == CoherencePairs(m, notes, i)
         IN  [total |-> rest.total + SumSimilarity(mine),
              pairs |-> rest.pairs + Len(mine)]

\* a findSimilarByNoteId of calculateCoherence throws
CoherenceThrows(m, notes) ==
    /\ Len(notes) >= 2
    /\ \E i \in 1..Len(notes) :
          FindSimilarByNoteId(m, notes[i].noteId, [limit |-> Len(notes) - 1]).status
              = "throw"

CalculateCoherence_NoShortcut(m, notes) ==
    LET sum == CoherenceTotal(m, notes, Len(notes))
    IN  IF sum.pairs > 0 THEN [num |-> sum.total, den |-> sum.pairs] ELSE Zero

\* calculateCoherence, as the fraction totalSimilarity / pairCount
CalculateCoherence(m, notes) ==
    IF Len(notes) < 2 THEN One
    ELSE LET sum == CoherenceTotal(m, notes, Len(notes))
         IN  IF sum.pairs > 0 THEN [num |-> sum.total, den |-> sum.pairs] ELSE Zero

\* createNoteCluster, with the call that built the cluster
Returned(op, input, threshold, maxSize, source, members, coherenceScore) ==
    [status |-> "ok", op |-> op, input |-> input, threshold |-> threshold,
     maxSize |-> maxSize, source |-> source, members |-> members,
     coherenceScore |-> coherenceScore]

\* the call rejects: a provider or index error reaches the caller
Thrown(op, input, threshold, maxSize) ==
    [status |-> "throw", op |-> op, input |-> input, threshold |-> threshold,
     maxSize |-> maxSize, source |-> "", members |-> <<>>, coherenceScore |-> Zero]

\* embedNotes, createMembers, calculateCoherence, createNoteCluster: the tail
\* shared by clusterByTag, clusterByFolder and createManualCluster
ClusterOf(op, input, source, notes, resp) ==
    LET m == EmbedNotes(StoreMap, notes, resp)
    IN  IF notes = <<>> THEN Returned(op, input, 0, 0, source, <<>>, Zero)
        ELSE IF ~resp.ok \/ CoherenceThrows(m, notes) THEN Thrown(op, input, 0, 0)
        ELSE Returned(op, input, 0, 0, source, CreateMembers(notes),
                      CalculateCoherence(m, notes))

\* the store after the call: embedNotes runs only for a non-empty note list
StoreAfter(notes, resp) ==
    IF notes = <<>> THEN StoreMap ELSE EmbedNotes(StoreMap, notes, resp)

\* the neighbours kept by autoCluster: not excluded, at most maxSize - 1
SimilarNotes_OneMore(allSimilarNotes, maxSize) ==
    LET Kept(r) == ~IsExcludedPath(r.notePath)
    IN  Take(SelectSeq(allSimilarNotes, Kept), maxSize)

\* the neighbours kept by autoCluster: not excluded, at most maxSize - 1
SimilarNotes(allSimilarNotes, maxSize) ==
    LET Kept(r) == ~IsExcludedPath(r.notePath)
    IN  Take(SelectSeq(allSimilarNotes, Kept), maxSize - 1)

\* the store after embedNote(seedNote) answered by resp
EmbedNote(m, note, resp) ==
    IF kind = "memory" /\ resp.ok /\ ~MapHas(m, note.noteId)
    THEN MapSet(m, [noteId |-> note.noteId, notePath |-> note.notePath,
                    vector |-> resp.vecs[1]])
    ELSE m

SeedAccepted_ResolvedOnly(seedNoteId) == GetNote(seedNoteId) # <<>>

\* the seed resolves and is not under an excluded folder
SeedAccepted(seedNoteId) ==
    /\ GetNote(seedNoteId) # <<>>
    /\ ~IsExcludedPath(GetNote(seedNoteId)[1].notePath)

\* autoCluster after the seed is accepted (the getNoteByPath loop builds a
\* list the cluster does not use)
AutoClusterOf(seedNoteId, threshold, maxSize, resp) ==
    LET seedNote == GetNote(seedNoteId)[1]
        m == EmbedNote(StoreMap, seedNote, resp)
        allSimilarNotes ==
            FindSimilarByNoteId(m, seedNoteId,
                                [threshold |-> threshold, limit |-> maxSize * 2])
        similarNotes == SimilarNotes(allSimilarNotes.results, maxSize)
        members ==
            <<[noteId |-> seedNote.noteId, notePath |-> seedNote.notePath,
               title |-> seedNote.title, similarity |-> SCALE]>>
            \o [i \in 1..Len(similarNotes) |->
                   [noteId |-> similarNotes[i].noteId,
                    notePath |-> similarNotes[i].notePath,
                    title |-> similarNotes[i].noteId,
                    similarity |-> similarNotes[i].similarity]]
        coherenceScore ==
            IF Len(members) > 1
            THEN [num |-> SumSimilarity(similarNotes), den |-> Len(members) - 1]
            ELSE One
    IN  IF ~resp.ok \/ allSimilarNotes.status = "throw"
        THEN Thrown("autoCluster", seedNoteId, threshold, maxSize)
        ELSE Returned("autoCluster", seedNoteId, threshold, maxSize, "similarity",
                      members, coherenceScore)

----------------------------------------------------------------------------
(* Clustering and synthesis operations *)

TagInputs == {TagX, TagZ}

FolderInputs == {FolderA, FolderC}

ExcludedChoices == {{}, {FolderA}, {FolderAB}}

\* "n9" names no file
ManualIds == {"n1", "n2", "n9"}

ClusterThresholds == {0 - SCALE, SCALE \div 2}

\* all sequences over S of length at most n
RECURSIVE Seqs(_, _)
Seqs(S, n) ==
    IF n = 0 THEN {<<>>}
    ELSE LET shorter == Seqs(S, n - 1)
         IN  shorter \cup {Append(s, x) : s \in shorter, x \in S}

\* vectorStore.store writes the in-memory Map only
SetStore(m) ==
    /\ vectors' = IF kind = "memory" THEN m ELSE vectors
    /\ UNCHANGED cache

\* setExcludedFolders
SetExcludedFolders(folders) ==
    /\ Quiet
    /\ excludedFolders' = folders
    /\ UNCHANGED wiring
    /\ UNCHANGED <<kind, vectors, cache, snapshot, vault, call, cluster, synth>>

\* clusterByTag
ClusterByTag(tag) ==
    LET notes == FilterExcludedNotes(GetNotesByTag(tag))
    IN  /\ Quiet
        /\ \E resp \in Responses(Len(ToEmbed(StoreMap, notes))) :
              /\ cluster' = ClusterOf("clusterByTag", tag, "tag", notes, resp)
              /\ SetStore(StoreAfter(notes, resp))
        /\ UNCHANGED wiring
        /\ UNCHANGED <<kind, snapshot, vault, excludedFolders, call, synth>>

\* clusterByFolder
ClusterByFolder(folder) ==
    LET notes == GetNotesByFolder(folder)
    IN  /\ Quiet
        /\ \E resp \in Responses(Len(ToEmbed(StoreMap, notes))) :
              /\ cluster' = ClusterOf("clusterByFolder", folder, "folder", notes, resp)
              /\ SetStore(StoreAfter(notes, resp))
        /\ UNCHANGED wiring
        /\ UNCHANGED <<kind, snapshot, vault, excludedFolders, call, synth>>

RECURSIVE Resolve_StopAtMissing(_)
Resolve_StopAtMissing(noteIds) ==
    IF noteIds = <<>> \/ GetNote(Head(noteIds)) = <<>> THEN <<>>
    ELSE GetNote(Head(noteIds)) \o Resolve_StopAtMissing(Tail(noteIds))

RECURSIVE Resolve(_)
\* the getNote loop of createManualCluster and fetchNoteContents
Resolve(noteIds) ==
    IF noteIds = <<>> THEN <<>>
    ELSE GetNote(Head(noteIds)) \o Resolve(Tail(noteIds))

\* createManualCluster
CreateManualCluster(noteIds) ==
    LET notes == Resolve(noteIds)
    IN  /\ Quiet
        /\ \E resp \in Responses(Len(ToEmbed(StoreMap, notes))) :
              /\ cluster' = ClusterOf("createManualCluster", noteIds, "manual",
                                      notes, resp)
              /\ SetStore(StoreAfter(notes, resp))
        /\ UNCHANGED wiring
        /\ UNCHANGED <<kind, snapshot, vault, excludedFolders, call, synth>>

\* autoCluster
AutoCluster(seedNoteId, threshold, maxSize) ==
    /\ Quiet
    /\ IF ~SeedAccepted(seedNoteId)
       THEN /\ cluster' = Returned("autoCluster", seedNoteId, threshold, maxSize,
                                   "similarity", <<>>, Zero)
            /\ UNCHANGED <<vectors, cache>>
       ELSE \E resp \in Responses(IF MapHas(StoreMap, seedNoteId) THEN 0 ELSE 1) :
              /\ cluster' = AutoClusterOf(seedNoteId, threshold, maxSize, resp)
              /\ SetStore(EmbedNote(StoreMap, GetNote(seedNoteId)[1], resp))
    /\ UNCHANGED wiring
    /\ UNCHANGED <<kind, snapshot, vault, excludedFolders, call, synth>>

\* SynthesizeNotesUseCase.execute on the cluster just returned: the request is
\* built from the member ids, the contents are fetched, the generator answers
\* or fails
Execute ==
    /\ call = Idle
    /\ cluster.status = "ok"
    /\ synth = NoSynth
    /\ LET noteIds == [i \in 1..Len(cluster.members) |-> cluster.members[i].noteId]
           noteContents == Resolve(noteIds)
       IN  IF noteIds = <<>>
           THEN synth' = [status |-> "noNotes", sourceNoteIds |-> <<>>,
                          fetched |-> <<>>, generatorCalls |-> 0,
                          sourceNoteLinks |-> <<>>]
           ELSE IF noteContents = <<>>
           THEN synth' = [status |-> "noContents", sourceNoteIds |-> noteIds,
                          fetched |-> <<>>, generatorCalls |-> 0,
                          sourceNoteLinks |-> <<>>]
           ELSE \E generated \in BOOLEAN :
                  synth' = [status |-> IF generated THEN "ok" ELSE "generatorFailed",
                            sourceNoteIds |-> noteIds,
                            fetched |-> [i \in 1..Len(noteContents) |->
                                            noteContents[i].noteId],
                            generatorCalls |-> 1,
                            sourceNoteLinks |->
                                IF generated
                                THEN [i \in 1..Len(noteContents) |->
                                         noteContents[i].title]
                                ELSE <<>>]
    /\ UNCHANGED wiring
    /\ UNCHANGED <<kind, vectors, cache, snapshot, vault, excludedFolders, call,
                   cluster>>

\* the clustering call (and the synthesis run on its cluster) is over
Return ==
    /\ cluster # NoCluster
    /\ cluster' = NoCluster
    /\ synth' = NoSynth
    /\ UNCHANGED wiring
    /\ UNCHANGED <<kind, vectors, cache, snapshot, vault, excludedFolders, call>>

Init ==
    /\ kind \in {"memory", "vault"}
    /\ vectors = <<>>
    /\ cache = <<>>
    /\ snapshot \in IF kind = "vault" THEN Snapshots ELSE {<<>>}
    /\ vault = FilePool
    /\ excludedFolders = {}
    /\ call = Idle
    /\ cluster = NoCluster
    /\ synth = NoSynth
    /\ suggested = NoSuggested
    /\ saved = NoSaved
    /\ clock = NoClock
    /\ embeds = NoEmbeds
    /\ reloads = NoReloads
    /\ plugin = NoPlugin

Next ==
    \/ \E folders \in ExcludedChoices : SetExcludedFolders(folders)
    \/ Refresh
    \/ \E tag \in TagInputs : ClusterByTag(tag)
    \/ \E folder \in FolderInputs : ClusterByFolder(folder)
    \/ \E noteIds \in Seqs(ManualIds, MaxManual) : CreateManualCluster(noteIds)
    \/ \E seedNoteId \in NoteIds, threshold \in ClusterThresholds, maxSize \in 1..MaxSize :
          AutoCluster(seedNoteId, threshold, maxSize)
    \/ Execute
    \/ Return

Spec == Init /\ [][Next]_vars

----------------------------------------------------------------------------
(* Claims about clustering: C5 - C10 *)

ClusterReturned == cluster.status = "ok"

\* the path lies under the folder: it starts with the folder and a '/'
UnderFolder(notePath, folder) == StartsWith(notePath, folder \o <<"/">>)

UnderExcluded(notePath) == \E f \in excludedFolders : UnderFolder(notePath, f)

\* C5: the coherenceScore of every returned cluster lies within [0, 1]
C5_CoherenceInUnitInterval ==
    ClusterReturned =>
        /\ cluster.coherenceScore.den > 0
        /\ 0 <= cluster.coherenceScore.num
        /\ cluster.coherenceScore.num <= SCALE * cluster.coherenceScore.den

\* C6 as stated: a returned cluster of at most one member has coherenceScore 1.0
C6_AtMostOneMemberIsOne ==
    (ClusterReturned /\ Len(cluster.members) <= 1) =>
        cluster.coherenceScore.num = SCALE * cluster.coherenceScore.den

\* C6 as amended: a returned cluster of exactly one member has coherenceScore
\* 1.0, and a returned cluster without members has coherenceScore 0
C6_SingleMemberIsOne ==
    ClusterReturned =>
        /\ Len(cluster.members) = 1 =>
              cluster.coherenceScore.num = SCALE * cluster.coherenceScore.den
        /\ Len(cluster.members) = 0 => cluster.coherenceScore.num = 0

\* a tag, folder or manual cluster of one member, returned while the index
\* holds vectors of other notes
C6_Witness ==
    /\ ClusterReturned
    /\ cluster.op # "autoCluster"
    /\ Len(cluster.members) = 1
    /\ \E i \in 1..Len(StoreMap) : StoreMap[i].noteId # cluster.members[1].noteId

\* C7: autoCluster returns at most maxSize members
C7_AtMostMaxSize ==
    (ClusterReturned /\ cluster.op = "autoCluster") =>
        Len(cluster.members) <= cluster.maxSize

\* stored vectors of other notes, not under an excluded folder, whose
\* similarity to the seed's vector reaches the threshold
SeedCandidates ==
    {i \in 1..Len(StoreMap) :
        /\ MapHas(StoreMap, cluster.input)
        /\ StoreMap[i].noteId # cluster.input
        /\ ~UnderExcluded(StoreMap[i].notePath)
        /\ Len(StoreMap[i].vector) = Len(MapGet(StoreMap, cluster.input).vector)
        /\ Cosine(MapGet(StoreMap, cluster.input).vector, StoreMap[i].vector)
               >= cluster.threshold}

\* autoCluster with maxSize 2 or more returned a full cluster while more
\* candidates than maxSize - 1 lie above the threshold
C7_Witness ==
    /\ ClusterReturned
    /\ cluster.op = "autoCluster"
    /\ cluster.maxSize >= 2
    /\ Len(cluster.members) = cluster.maxSize
    /\ Cardinality(SeedCandidates) > cluster.maxSize - 1

\* C8: no member of a tag cluster or of a folder cluster lies under an excluded
\* folder
C8_NoExcludedMember ==
    (ClusterReturned /\ cluster.op \in {"clusterByTag", "clusterByFolder"}) =>
        \A i \in 1..Len(cluster.members) : ~UnderExcluded(cluster.members[i].notePath)

\* the documents of the vault that carry the tag and are not excluded
TaggedDocuments(tag) == {f \in vault : HasTag(f, tag) /\ ~UnderExcluded(Path(f))}

\* C9: the members of a tag cluster are the tagged, not excluded documents, one
\* member per document, each with similarity 1.0, and the source is 'tag'
C9_TagClusterExact ==
    (ClusterReturned /\ cluster.op = "clusterByTag") =>
        /\ cluster.source = "tag"
        /\ Len(cluster.members) = Cardinality(TaggedDocuments(cluster.input))
        /\ {cluster.members[i].notePath : i \in 1..Len(cluster.members)}
              = {Path(f) : f \in TaggedDocuments(cluster.input)}
        /\ \A i \in 1..Len(cluster.members) :
              /\ cluster.members[i].similarity = SCALE
              /\ \E f \in TaggedDocuments(cluster.input) :
                    /\ Path(f) = cluster.members[i].notePath
                    /\ f.basename = cluster.members[i].noteId

\* 4 documents of which 3 carry the tag: a tag cluster of 3 members
C9_Witness ==
    /\ ClusterReturned
    /\ cluster.op = "clusterByTag"
    /\ Cardinality(vault) = 4
    /\ Cardinality({f \in vault : HasTag(f, cluster.input)}) = 3
    /\ Len(cluster.members) = 3

Distinct(seq) == \A i, j \in 1..Len(seq) : i # j => seq[i] # seq[j]

\* C10: the member ids of every returned cluster are pairwise distinct, and so
\* are the sourceNoteIds of a request built from it
C10_DistinctMemberIds ==
    ClusterReturned =>
        /\ Distinct([i \in 1..Len(cluster.members) |-> cluster.members[i].noteId])
        /\ synth # NoSynth => Distinct(synth.sourceNoteIds)

----------------------------------------------------------------------------
(* SuggestSynthesisUseCase *)

SUGGEST_MAX_SIZE == 15

SUGGEST_THRESHOLD == SCALE \div 2

DEFAULT_MIN_CLUSTER_SIZE == 3

DEFAULT_MAX_SUGGESTIONS == 5

DEFAULT_MAX_SUGGESTIONS_ALL == 10

\* the default minCoherence of suggestByTags, suggestByFolders, suggestBySimilarity
DefaultMinCoherence(op) ==
    CASE op = "suggestByTags" -> (4 * SCALE) \div 10
      [] op = "suggestByFolders" -> (3 * SCALE) \div 10
      [] OTHER -> (5 * SCALE) \div 10

OptMinClusterSize(options) ==
    IF "minClusterSize" \in DOMAIN options THEN options.minClusterSize
    ELSE DEFAULT_MIN_CLUSTER_SIZE

\* suggestAll passes maxSuggestions ?? 10 down to suggestBySimilarity
OptMaxSuggestions(op, options) ==
    IF "maxSuggestions" \in DOMAIN options THEN options.maxSuggestions
    ELSE IF op = "suggestAll" THEN DEFAULT_MAX_SUGGESTIONS_ALL
    ELSE DEFAULT_MAX_SUGGESTIONS

OptMinCoherence(op, options) ==
    IF "minCoherence" \in DOMAIN options THEN options.minCoherence
    ELSE DefaultMinCoherence(op)

OptExcludedFolders(options) ==
    IF "excludedFolders" \in DOMAIN options THEN options.excludedFolders ELSE {}

\* the tags of the vault in the order of Array.prototype.sort
TagOrder == <<TagT, TagX, TagXY, TagZ>>

\* the folders of the vault in the order of Array.prototype.sort
FolderOrder == <<FolderA, FolderAB, FolderAb, FolderC, FolderD>>

\* getAllTags
GetAllTags ==
    LET Used(tag) == \E f \in vault : tag \in f.tags IN SelectSeq(TagOrder, Used)

\* getAllFolders
GetAllFolders ==
    LET Used(folder) == \E f \in vault : f.folder = folder
    IN  SelectSeq(FolderOrder, Used)

\* the folders suggestByFolders clusters: those not excluded by the options
SuggestFolders(options) ==
    LET Kept(folder) ==
            ~\E excluded \in OptExcludedFolders(options) :
                folder = excluded \/ StartsWith(folder, excluded \o <<"/">>)
    IN  SelectSeq(GetAllFolders, Kept)

\* calculatePriority: score = coherenceScore * min(members / 10, 1)
CalculatePriority(c) ==
    LET size == Min(Len(c.members), 10)
    IN  IF c.coherenceScore.num * size >= 6 * SCALE * c.coherenceScore.den THEN "high"
        ELSE IF c.coherenceScore.num * size >= 3 * SCALE * c.coherenceScore.den
             THEN "medium"
        ELSE "low"

\* suggestSynthesisType
SuggestSynthesisType(c) ==
    IF Len(c.members) >= 7 THEN "framework"
    ELSE IF Len(c.members) >= 4 THEN "comparison"
    ELSE "summary"

Qualifies_SizeOnly(c, op, options) == Len(c.members) >= OptMinClusterSize(options)

\* the size and coherence test of the three suggest loops
Qualifies(c, op, options) ==
    /\ Len(c.members) >= OptMinClusterSize(options)
    /\ c.coherenceScore.num >= OptMinCoherence(op, options) * c.coherenceScore.den

Suggestion(c, op) ==
    [cluster |-> c, priority |-> CalculatePriority(c),
     suggestedType |-> IF op \in {"suggestByTags", "suggestByFolders"}
                       THEN SuggestSynthesisType(c) ELSE "framework"]

PriorityOrder(priority) ==
    CASE priority = "high" -> 3 [] priority = "medium" -> 2 [] OTHER -> 1

CompareSuggestions_PriorityOnly(a, b) ==
    PriorityOrder(b.priority) - PriorityOrder(a.priority)

\* the comparator of sortAndLimit: its sign
CompareSuggestions(a, b) ==
    LET priorityDiff == PriorityOrder(b.priority) - PriorityOrder(a.priority)
    IN  IF priorityDiff # 0 THEN priorityDiff
        ELSE b.cluster.coherenceScore.num * a.cluster.coherenceScore.den
             - a.cluster.coherenceScore.num * b.cluster.coherenceScore.den

\* Array.prototype.sort with that comparator: stable
RECURSIVE InsertSuggestion(_, _)
InsertSuggestion(sorted, s) ==
    IF sorted = <<>> THEN <<s>>
    ELSE IF CompareSuggestions(Head(sorted), s) <= 0
         THEN <<Head(sorted)>> \o InsertSuggestion(Tail(sorted), s)
         ELSE <<s>> \o sorted

RECURSIVE SortSuggestions(_)
SortSuggestions(suggestions) ==
    IF suggestions = <<>> THEN <<>>
    ELSE InsertSuggestion(SortSuggestions(SubSeq(suggestions, 1, Len(suggestions) - 1)),
                          suggestions[Len(suggestions)])

\* sortAndLimit
SortAndLimit(suggestions, maxSuggestions) ==
    Take(SortSuggestions(suggestions), maxSuggestions)

\* the order of Array.prototype.sort on the note ids of the model
IdOrder == <<"a", "a,b", "b", "n1", "n2", "n3", "n4", "n5", "n6", "n7", "n8", "n9">>

IdRank(noteId) == CHOOSE i \in 1..Len(IdOrder) : IdOrder[i] = noteId

RECURSIVE InsertId(_, _)
InsertId(sorted, noteId) ==
    IF sorted = <<>> THEN <<noteId>>
    ELSE IF IdRank(Head(sorted)) <= IdRank(noteId)
         THEN <<Head(sorted)>> \o InsertId(Tail(sorted), noteId)
         ELSE <<noteId>> \o sorted

RECURSIVE SortIds(_)
SortIds(noteIds) ==
    IF noteIds = <<>> THEN <<>>
    ELSE InsertId(SortIds(SubSeq(noteIds, 1, Len(noteIds) - 1)), noteIds[Len(noteIds)])

\* the characters of a note id, as far as join can tell: the id "a,b" holds
\* the separator, every other id of the model is one token without it
Chars(noteId) == IF noteId = "a,b" THEN <<"a", ",", "b">> ELSE <<noteId>>

RECURSIVE Join(_)
\* Array.prototype.join(',')
Join(parts) ==
    IF parts = <<>> THEN <<>>
    ELSE IF Len(parts) = 1 THEN Chars(Head(parts))
    ELSE Chars(Head(parts)) \o <<",">> \o Join(Tail(parts))

MemberIds(c) == [i \in 1..Len(c.members) |-> c.members[i].noteId]

DedupKey_Unsorted(suggestion) == Join(MemberIds(suggestion.cluster))

\* the key of deduplicateSuggestions: the member ids, sorted and joined
DedupKey(suggestion) == Join(SortIds(MemberIds(suggestion.cluster)))

\* deduplicateSuggestions: the first suggestion of every key is kept
DeduplicateSuggestions(suggestions) ==
    LET first == {i \in 1..Len(suggestions) :
                     \A k \in 1..(i - 1) : DedupKey(suggestions[k]) # DedupKey(suggestions[i])}
        Nth(n) == CHOOSE i \in first : Cardinality({k \in first : k < i}) = n - 1
    IN  [n \in 1..Cardinality(first) |-> suggestions[Nth(n)]]

\* what the suggest call returns once its loop is over
Finished(s, found) ==
    LET ranked == SortAndLimit(found, OptMaxSuggestions(s.op, s.options))
    IN  [s EXCEPT !.status = "done", !.todo = <<>>, !.found = found,
                  !.ranked = ranked,
                  !.result = IF s.op = "suggestAll"
                             THEN DeduplicateSuggestions(ranked) ELSE ranked]

\* the loop body after the clustering call answered with c (or rejected)
AfterCluster(s, c) ==
    IF c.status = "throw"
    THEN [s EXCEPT !.status = "throw", !.failedAt = Head(s.todo)]
    ELSE LET found == IF Qualifies(c, s.op, s.options)
                      THEN Append(s.found, Suggestion(c, s.op)) ELSE s.found
         IN  IF Len(s.todo) = 1 THEN Finished(s, found)
             ELSE [s EXCEPT !.todo = Tail(s.todo), !.found = found]

\* the call starts: the list to loop over is read
Started(op, input, options, todo) ==
    LET s == [status |-> "running", op |-> op, input |-> input, options |-> options,
              todo |-> todo, found |-> <<>>, ranked |-> <<>>, result |-> <<>>,
              failedAt |-> <<>>]
    IN  IF todo = <<>> THEN Finished(s, <<>>) ELSE s

\* no other call is being answered
SuggestQuiet == Quiet /\ suggested = NoSuggested

\* suggestByTags up to its first clusterByTag
SuggestByTags(options) ==
    /\ SuggestQuiet
    /\ suggested' = Started("suggestByTags", <<>>, options, GetAllTags)
    /\ UNCHANGED <<kind, vectors, cache, snapshot, vault, excludedFolders, call,
                   cluster, synth, saved, clock, plugin, embeds, reloads>>

\* suggestByFolders up to its first clusterByFolder
SuggestByFolders(options) ==
    /\ SuggestQuiet
    /\ suggested' = Started("suggestByFolders", <<>>, options, SuggestFolders(options))
    /\ UNCHANGED <<kind, vectors, cache, snapshot, vault, excludedFolders, call,
                   cluster, synth, saved, clock, plugin, embeds, reloads>>

\* suggestBySimilarity up to its first autoCluster
SuggestBySimilarity(seedNoteIds, options) ==
    /\ SuggestQuiet
    /\ suggested' = Started("suggestBySimilarity", seedNoteIds, options, seedNoteIds)
    /\ UNCHANGED <<kind, vectors, cache, snapshot, vault, excludedFolders, call,
                   cluster, synth, saved, clock, plugin, embeds, reloads>>

\* suggestAll up to the first autoCluster of its suggestBySimilarity
SuggestAll(recentNoteIds, options) ==
    /\ SuggestQuiet
    /\ suggested' = Started("suggestAll", recentNoteIds, options, recentNoteIds)
    /\ UNCHANGED <<kind, vectors, cache, snapshot, vault, excludedFolders, call,
                   cluster, synth, saved, clock, plugin, embeds, reloads>>

\* one turn of the loop of suggestByTags or suggestByFolders: the clustering call
\* is awaited, its cluster is tested; after the last turn the list is sorted
SuggestAttributeStep ==
    /\ suggested.status = "running"
    /\ suggested.op \in {"suggestByTags", "suggestByFolders"}
    /\ LET byTag == suggested.op = "suggestByTags"
           attribute == Head(suggested.todo)
           notes == IF byTag THEN FilterExcludedNotes(GetNotesByTag(attribute))
                    ELSE GetNotesByFolder(attribute)
       IN  \E resp \in Responses(Len(ToEmbed(StoreMap, notes))) :
              /\ suggested' =
                    AfterCluster(suggested,
                        IF byTag
                        THEN ClusterOf("clusterByTag", attribute, "tag", notes, resp)
                        ELSE ClusterOf("clusterByFolder", attribute, "folder", notes, resp))
              /\ SetStore(StoreAfter(notes, resp))
    /\ UNCHANGED <<kind, snapshot, vault, excludedFolders, call, cluster, synth,
                   saved, clock, plugin, embeds, reloads>>

\* one turn of the loop of suggestBySimilarity: autoCluster(seedNoteId, 0.5, 15)
SuggestSeedStep ==
    /\ suggested.status = "running"
    /\ suggested.op \in {"suggestBySimilarity", "suggestAll"}
    /\ LET seedNoteId == Head(suggested.todo)
       IN  IF ~SeedAccepted(seedNoteId)
           THEN /\ suggested' =
                      AfterCluster(suggested,
                          Returned("autoCluster", seedNoteId, SUGGEST_THRESHOLD,
                                   SUGGEST_MAX_SIZE, "similarity", <<>>, Zero))
                /\ UNCHANGED <<vectors, cache>>
           ELSE \E resp \in Responses(IF MapHas(StoreMap, seedNoteId) THEN 0 ELSE 1) :
                  /\ suggested' =
                        AfterCluster(suggested,
                            AutoClusterOf(seedNoteId, SUGGEST_THRESHOLD,
                                          SUGGEST_MAX_SIZE, resp))
                  /\ SetStore(EmbedNote(StoreMap, GetNote(seedNoteId)[1], resp))
    /\ UNCHANGED <<kind, snapshot, vault, excludedFolders, call, cluster, synth,
                   saved, clock, plugin, embeds, reloads>>

\* the caller has its list, or its rejection
SuggestReturn ==
    /\ suggested # NoSuggested
    /\ suggested.status \in {"done", "throw"}
    /\ suggested' = NoSuggested
    /\ UNCHANGED <<kind, vectors, cache, snapshot, vault, excludedFolders, call,
                   cluster, synth, saved, clock, plugin, embeds, reloads>>

MaxSeeds == 3

MaxSuggestions == 2

\* the vault of a user with eight notes
SuggestVault == {F1, F2, F4, F5, F6, F7, F8, F9}

Entry(f, vector) == [noteId |-> f.basename, notePath |-> Path(f), vector |-> vector]

\* six notes along one direction, one across it, one in between
Index1 ==
    <<Entry(F1, <<1, 0>>), Entry(F2, <<1, 0>>), Entry(F4, <<0, 1>>),
      Entry(F5, <<1, 0>>), Entry(F6, <<1, 0>>), Entry(F7, <<1, 0>>),
      Entry(F8, <<1, 0>>), Entry(F9, <<3, 4>>)>>

\* five notes close to each other; three notes not embedded yet
Index2 ==
    <<Entry(F1, <<1, 0>>), Entry(F2, <<3, 4>>), Entry(F4, <<4, 3>>),
      Entry(F5, <<1, 0>>), Entry(F6, <<1, 0>>)>>

\* Index1 before note n3 was embedded
Index3 == LET Other(e) == e.noteId # "n3" IN SelectSeq(Index1, Other)

IndexPool == {Index1, Index2, Index3}

SuggestOptionsPool ==
    {<<>>,
     [minClusterSize |-> 1, minCoherence |-> 0],
     [minClusterSize |-> 1, minCoherence |-> 0, maxSuggestions |-> MaxSuggestions],
     [minClusterSize |-> 2, minCoherence |-> 0, excludedFolders |-> {FolderA}],
     [minClusterSize |-> 2, minCoherence |-> (9 * SCALE) \div 10],
     [minClusterSize |-> 0, minCoherence |-> 0]}

InitSuggest ==
    /\ kind \in {"memory", "vault"}
    /\ \E index \in IndexPool :
          /\ vectors = IF kind = "memory" THEN index ELSE <<>>
          /\ cache = IF kind = "vault" THEN index ELSE <<>>
          /\ snapshot = IF kind = "vault" THEN index ELSE <<>>
    /\ vault = SuggestVault
    /\ excludedFolders \in {{}, {FolderAB}}
    /\ call = Idle
    /\ cluster = NoCluster
    /\ synth = NoSynth
    /\ suggested = NoSuggested
    /\ saved = NoSaved
    /\ clock = NoClock
    /\ embeds = NoEmbeds
    /\ reloads = NoReloads
    /\ plugin = NoPlugin

NextSuggest ==
    \/ \E options \in SuggestOptionsPool : SuggestByTags(options)
    \/ \E options \in SuggestOptionsPool : SuggestByFolders(options)
    \/ \E seedNoteIds \in Seqs(NoteIds, MaxSeeds), options \in SuggestOptionsPool :
          SuggestBySimilarity(seedNoteIds, options)
    \/ \E recentNoteIds \in Seqs(NoteIds, MaxSeeds), options \in SuggestOptionsPool :
          SuggestAll(recentNoteIds, options)
    \/ SuggestAttributeStep
    \/ SuggestSeedStep
    \/ SuggestReturn

SpecSuggest == InitSuggest /\ [][NextSuggest]_vars

----------------------------------------------------------------------------
(* Claims about suggestions: C11, C12 *)

SuggestionsReturned == suggested.status = "done"

\* coherence of a is at least the coherence of b
CoherenceAtLeast(a, b) ==
    a.cluster.coherenceScore.num * b.cluster.coherenceScore.den
        >= b.cluster.coherenceScore.num * a.cluster.coherenceScore.den

\* C11: in every list a suggest call returns, priority never increases along
\* the list and, between neighbours of equal priority, coherence never increases
C11_SuggestionsSorted ==
    SuggestionsReturned =>
        \A i \in 1..(Len(suggested.result) - 1) :
            LET a == suggested.result[i]
                b == suggested.result[i + 1]
            IN  /\ PriorityOrder(a.priority) >= PriorityOrder(b.priority)
                /\ a.priority = b.priority => CoherenceAtLeast(a, b)

\* a returned list of three or more whose clusters were found in another order,
\* with two priorities and two neighbours of equal priority, unequal coherence
C11_Witness ==
    /\ SuggestionsReturned
    /\ Len(suggested.result) >= 3
    /\ suggested.found # SortSuggestions(suggested.found)
    /\ \E i \in 1..(Len(suggested.result) - 1) :
          suggested.result[i].priority # suggested.result[i + 1].priority
    /\ \E i \in 1..(Len(suggested.result) - 1) :
          /\ suggested.result[i].priority = suggested.result[i + 1].priority
          /\ ~CoherenceAtLeast(suggested.result[i + 1], suggested.result[i])

IdSet(suggestion) == Range(MemberIds(suggestion.cluster))

\* the first position of the ranked list whose member ids are that set
FirstRanked(ids) ==
    CHOOSE i \in 1..Len(suggested.ranked) :
        /\ IdSet(suggested.ranked[i]) = ids
        /\ \A k \in 1..(i - 1) : IdSet(suggested.ranked[k]) # ids

\* C12: suggestAll returns, for every set of member ids of the ranked list, the
\* first suggestion with that set and no other, in ranked order
C12_OnePerMemberSet ==
    (SuggestionsReturned /\ suggested.op = "suggestAll") =>
        /\ \A i, j \in 1..Len(suggested.result) :
              i # j => IdSet(suggested.result[i]) # IdSet(suggested.result[j])
        /\ {IdSet(suggested.result[i]) : i \in 1..Len(suggested.result)}
              = {IdSet(suggested.ranked[i]) : i \in 1..Len(suggested.ranked)}
        /\ \A i \in 1..Len(suggested.result) :
              suggested.result[i]
                  = suggested.ranked[FirstRanked(IdSet(suggested.result[i]))]
        /\ \A i, j \in 1..Len(suggested.result) :
              i < j => FirstRanked(IdSet(suggested.result[i]))
                          < FirstRanked(IdSet(suggested.result[j]))

\* suggestAll ranked two clusters of the same notes listed in different orders,
\* and a cluster of other notes, and returned two suggestions
C12_Witness ==
    /\ SuggestionsReturned
    /\ suggested.op = "suggestAll"
    /\ Len(suggested.result) = 2
    /\ \E i, j \in 1..Len(suggested.ranked) :
          /\ i < j
          /\ IdSet(suggested.ranked[i]) = IdSet(suggested.ranked[j])
          /\ MemberIds(suggested.ranked[i].cluster) # MemberIds(suggested.ranked[j].cluster)

----------------------------------------------------------------------------
(* SynthesizeNotesUseCase.saveResult and the Document Store's createNote *)

MAX_FILE_NAME_LENGTH == 100

MaxSaves == 2

MaxDeleted == 1

\* the characters of /[\\/:*?"<>|]/
Forbidden == {"\\", "/", ":", "*", "?", "\"", "<", ">", "|"}

\* the characters of \s the titles of the model hold
IsWhitespace(c) == c \in {" ", "\t"}

\* replace(/[\\/:*?"<>|]/g, '')
StripForbidden(title) ==
    LET Allowed(c) == c \notin Forbidden IN SelectSeq(title, Allowed)

\* String.prototype.trim: the whitespace before the first and after the last
\* other character goes
Trim(s) ==
    LET leading == CHOOSE n \in 0..Len(s) :
                       /\ \A j \in 1..n : IsWhitespace(s[j])
                       /\ n = Len(s) \/ ~IsWhitespace(s[n + 1])
        trailing == CHOOSE n \in 0..Len(s) :
                       /\ \A j \in 0..(n - 1) : IsWhitespace(s[Len(s) - j])
                       /\ n = Len(s) \/ ~IsWhitespace(s[Len(s) - n])
    IN  IF leading = Len(s) THEN <<>> ELSE SubSeq(s, leading + 1, Len(s) - trailing)

\* replace(/\s+/g, ' '): the first character of every run of whitespace becomes
\* a space, the rest of the run goes
CollapseWhitespace(s) ==
    LET marked == [i \in 1..Len(s) |->
                      [char |-> IF IsWhitespace(s[i]) THEN " " ELSE s[i],
                       kept |-> \/ ~IsWhitespace(s[i])
                                \/ i = 1
                                \/ ~IsWhitespace(s[i - 1])]]
        Kept(m) == m.kept
        kept == SelectSeq(marked, Kept)
    IN  [i \in 1..Len(kept) |-> kept[i].char]

\* sanitizeFileName: strip, collapse, trim, substring(0, 100)
SanitizeFileName(title) ==
    Take(Trim(CollapseWhitespace(StripForbidden(title))), MAX_FILE_NAME_LENGTH)

\* path.substring(0, path.lastIndexOf('/'))
ParentFolder(path) ==
    LET slashes == {i \in 1..Len(path) : path[i] = "/"}
    IN  IF slashes = {} THEN <<>>
        ELSE SubSeq(path, 1, (CHOOSE i \in slashes : \A j \in slashes : j <= i) - 1)

\* generateFrontmatter and the content: the envelope of the result
Envelope(result) == [title |-> result.title, sources |-> result.sourceNoteLinks]

\* getAbstractFileByPath(path) finds a file
FileExists(path) ==
    \/ \E f \in saved.files : f.path = path
    \/ \E f \in vault : Path(f) = path

\* getAbstractFileByPath(folderPath) finds a folder
FolderExists(folderPath) ==
    \/ folderPath \in saved.folders
    \/ \E f \in vault : f.folder = folderPath

\* createNote: the parent folder is created if missing; vault.create rejects
\* with 'already exists' when a file is at the path
CreateNote(path, content) ==
    [files |-> IF FileExists(path) THEN saved.files
               ELSE saved.files \cup {[path |-> path, content |-> content]},
     folders |-> IF ParentFolder(path) # <<>> /\ ~FolderExists(ParentFolder(path))
                 THEN saved.folders \cup {ParentFolder(path)}
                 ELSE saved.folders,
     status |-> IF FileExists(path) THEN "throw" ELSE "ok"]

ResultAvailable_AnyOutcome == synth # NoSynth /\ synth.generatorCalls = 1

\* saveResult is handed the result execute returned: execute resolved
ResultAvailable == synth # NoSynth /\ synth.status = "ok"

\* saveResult(result, folderPath)
SaveResult(result, folderPath) ==
    LET fileName == SanitizeFileName(result.title)
        filePath == folderPath \o <<"/">> \o fileName \o <<".md">>
        created == CreateNote(filePath, Envelope(result))
    IN  /\ call = Idle
        /\ suggested = NoSuggested
        /\ ResultAvailable
        /\ result.sourceNoteLinks = synth.sourceNoteLinks
        /\ Len(saved.calls) < MaxSaves
        /\ saved' = [files |-> created.files,
                     folders |-> created.folders,
                     calls |-> Append(saved.calls,
                                  [result |-> result, folderPath |-> folderPath,
                                   fileName |-> fileName, filePath |-> filePath,
                                   status |-> created.status])]
        /\ UNCHANGED <<kind, vectors, cache, snapshot, vault, excludedFolders, call,
                       cluster, synth, suggested, clock, plugin, embeds, reloads>>

\* the user deletes a note while a cluster is on display
DeleteFile(f) ==
    /\ call = Idle
    /\ synth = NoSynth
    /\ f \in vault
    /\ Cardinality(FilePool \ vault) < MaxDeleted
    /\ vault' = vault \ {f}
    /\ UNCHANGED <<kind, vectors, cache, snapshot, excludedFolders, call, cluster,
                   synth, suggested, saved, clock, plugin, embeds, reloads>>

Padding(n) == [i \in 1..n |-> "a"]

\* result titles: plain, with forbidden characters, with runs of whitespace and
\* whitespace at the ends, and longer than the cap
TitlePool ==
    {<<"a">>,
     <<" ", "a", "/", "?", " ", "\t", "a", " ">>,
     <<"/", ":">>,
     Padding(MAX_FILE_NAME_LENGTH + 1),
     Padding(MAX_FILE_NAME_LENGTH - 1) \o <<" ", "a">>,
     Padding(MAX_FILE_NAME_LENGTH - 2) \o <<" ", " ", "a", "a">>}

\* settings.outputFolder: a folder that does not exist before the first save
OutputFolders == {<<"o">>}

\* the plugin wired with the read-through index, which clustering never writes
InitSynth ==
    /\ kind = "vault"
    /\ vectors = <<>>
    /\ cache = <<>>
    /\ snapshot = <<>>
    /\ vault = FilePool
    /\ excludedFolders = {}
    /\ call = Idle
    /\ cluster = NoCluster
    /\ synth = NoSynth
    /\ suggested = NoSuggested
    /\ saved = NoSaved
    /\ clock = NoClock
    /\ embeds = NoEmbeds
    /\ reloads = NoReloads
    /\ plugin = NoPlugin

\* the request is over before anything was saved; a request that has saved is
\* followed to its last saveResult and no further
SynthReturn ==
    /\ saved.calls = <<>>
    /\ Return

NextSynth ==
    \/ \E tag \in TagInputs : ClusterByTag(tag)
    \/ \E noteIds \in Seqs(ManualIds, MaxManual) : CreateManualCluster(noteIds)
    \/ \E f \in FilePool : DeleteFile(f)
    \/ Execute
    \/ \E title \in TitlePool, folderPath \in OutputFolders :
          SaveResult([title |-> title, sourceNoteLinks |-> synth.sourceNoteLinks],
                     folderPath)
    \/ SynthReturn

SpecSynth == InitSynth /\ [][NextSynth]_vars

----------------------------------------------------------------------------
(* Claims about synthesis and persistence: C13 - C17 *)

Executed == synth # NoSynth

\* the member ids that resolve in the Document Store, in member order
ResolvedIds ==
    LET Resolves(noteId) == \E f \in vault : f.basename = noteId
    IN  SelectSeq(MemberIds(cluster), Resolves)

\* C13: for a cluster of k >= 1 members the request holds the k member ids in
\* member order, and a result holds one source link per resolved id, at most k
C13_RequestMatchesCluster ==
    (Executed /\ Len(cluster.members) >= 1) =>
        /\ synth.sourceNoteIds = MemberIds(cluster)
        /\ Len(synth.sourceNoteLinks) <= Len(cluster.members)
        /\ synth.status = "ok" => Len(synth.sourceNoteLinks) = Len(ResolvedIds)

\* a result for a cluster of two members of which one no longer resolves
C13_Witness ==
    /\ Executed
    /\ synth.status = "ok"
    /\ Len(cluster.members) = 2
    /\ Len(synth.sourceNoteLinks) = 1

\* C14: from the moment the generator fails, the Document Store stays as it
\* was: no createNote call, no new file, no new folder
C14_FailureLeavesStoreUntouched ==
    [][(synth.status = "generatorFailed" \/ synth'.status = "generatorFailed")
          => (saved' = saved /\ vault' = vault)]_vars

\* the generator failed on a request whose notes were fetched
C14_Witness ==
    /\ Executed
    /\ synth.status = "generatorFailed"
    /\ synth.fetched # <<>>
    /\ saved = NoSaved

\* C15: execute fails without a generator call for a cluster without members
\* and for members of which none resolves; otherwise the generator is called
\* once, with the resolved documents in member order
C15_FetchDropsUnresolved ==
    Executed =>
        /\ cluster.members = <<>> =>
              synth.status = "noNotes" /\ synth.generatorCalls = 0
        /\ (cluster.members # <<>> /\ ResolvedIds = <<>>) =>
              synth.status = "noContents" /\ synth.generatorCalls = 0
        /\ ResolvedIds # <<>> =>
              /\ synth.status \in {"ok", "generatorFailed"}
              /\ synth.generatorCalls = 1
              /\ synth.fetched = ResolvedIds

\* the first member no longer resolves, the second does: the generator is
\* called with the second alone
C15_Witness ==
    /\ Executed
    /\ Len(synth.sourceNoteIds) = 2
    /\ synth.generatorCalls = 1
    /\ synth.fetched = <<synth.sourceNoteIds[2]>>
    /\ synth.sourceNoteIds[1] # synth.sourceNoteIds[2]

\* C16: two saveResult calls with the same result and folder both succeed and
\* leave one file at the target path, holding the envelope
C16_SaveTwiceSucceeds ==
    \A i, j \in 1..Len(saved.calls) :
        (/\ i < j
         /\ saved.calls[i].result = saved.calls[j].result
         /\ saved.calls[i].folderPath = saved.calls[j].folderPath) =>
            /\ saved.calls[i].status = "ok"
            /\ saved.calls[j].status = "ok"
            /\ {f.content : f \in {g \in saved.files : g.path = saved.calls[j].filePath}}
                  = {Envelope(saved.calls[j].result)}

\* C17: the file name of every saveResult call holds no forbidden character,
\* no two whitespace characters in a row, no whitespace at either end, and at
\* most 100 characters
C17_FileNameClean ==
    \A k \in 1..Len(saved.calls) :
        LET fileName == saved.calls[k].fileName
        IN  /\ \A i \in 1..Len(fileName) : fileName[i] \notin Forbidden
            /\ \A i \in 1..(Len(fileName) - 1) :
                  ~(IsWhitespace(fileName[i]) /\ IsWhitespace(fileName[i + 1]))
            /\ fileName # <<>> =>
                  ~IsWhitespace(fileName[1]) /\ ~IsWhitespace(fileName[Len(fileName)])
            /\ Len(fileName) <= MAX_FILE_NAME_LENGTH

----------------------------------------------------------------------------
(* The read-through index and time: VaultEmbeddingsVectorStore's TTL *)

CACHE_TTL_MS == 60 * 1000

\* Date.now() at construction: later than one TTL after the epoch, so that a
\* store that never loaded (lastCacheUpdate = 0) is stale
StartOfTime == CACHE_TTL_MS + 1

\* Date.now() is StartOfTime plus at most MaxPeriods whole TTLs plus at most
\* MaxDrift milliseconds
MaxPeriods == 2

MaxDrift == 1

\* isCacheStale
IsCacheStale == clock.now - clock.lastCacheUpdate > CACHE_TTL_MS

\* time passes between two calls
Tick(ms) ==
    /\ call = Idle
    /\ LET elapsed == clock.now + ms - StartOfTime
       IN  /\ elapsed \div CACHE_TTL_MS <= MaxPeriods
           /\ elapsed % CACHE_TTL_MS <= MaxDrift
    /\ clock' = [clock EXCEPT !.now = clock.now + ms]
    /\ UNCHANGED <<kind, vectors, cache, snapshot, vault, excludedFolders, call,
                   cluster, synth, suggested, saved, plugin, embeds, reloads>>

\* the plugin that owns the embedding files rewrites them
SnapshotWrite(s) ==
    /\ call = Idle
    /\ s # snapshot
    /\ snapshot' = s
    /\ UNCHANGED <<kind, vectors, cache, vault, excludedFolders, call, cluster,
                   synth, suggested, saved, clock, plugin, embeds, reloads>>

\* VaultEmbeddingsVectorStore.initialize
Initialize ==
    \E readable \in BOOLEAN :
        LET loaded == LoadFromVaultEmbeddings(readable)
            skip == clock.initialized /\ ~IsCacheStale
        IN  /\ call = Idle
            /\ cache' = IF skip THEN cache ELSE loaded.cache
            /\ clock' = IF skip THEN clock
                        ELSE [clock EXCEPT !.lastCacheUpdate = loaded.lastCacheUpdate,
                                           !.initialized = TRUE]
            /\ UNCHANGED <<kind, vectors, snapshot, vault, excludedFolders, call,
                           cluster, synth, suggested, saved, plugin, embeds, reloads>>

\* VaultEmbeddingsVectorStore.getStats: refreshCacheIfStale, then the counts
GetStats ==
    \E readable \in BOOLEAN :
        LET loaded == LoadFromVaultEmbeddings(readable)
            after == IF IsCacheStale THEN loaded.cache ELSE cache
        IN  /\ call = Idle
            /\ cache' = after
            /\ clock' = IF IsCacheStale
                        THEN [clock EXCEPT !.lastCacheUpdate = loaded.lastCacheUpdate]
                        ELSE clock
            /\ call' = [Idle EXCEPT !.op = "getStats", !.status = "ok",
                                    !.results = <<[isAvailable |-> Len(after) > 0,
                                                   totalEmbeddings |-> Len(after)]>>]
            /\ UNCHANGED <<kind, vectors, snapshot, vault, excludedFolders, cluster,
                           synth, suggested, saved, plugin, embeds, reloads>>

\* VaultEmbeddingsVectorStore.get: this.cache.get(noteId)
GetCall(noteId) ==
    /\ call = Idle
    /\ call' = [Idle EXCEPT !.op = "get", !.noteId = noteId, !.status = "ok",
                            !.results = IF MapHas(cache, noteId)
                                        THEN <<MapGet(cache, noteId)>> ELSE <<>>]
    /\ UNCHANGED <<kind, vectors, cache, snapshot, vault, excludedFolders, cluster,
                   synth, suggested, saved, clock, plugin, embeds, reloads>>

\* VaultEmbeddingsVectorStore.size: this.cache.size
SizeCall ==
    /\ call = Idle
    /\ call' = [Idle EXCEPT !.op = "size", !.status = "ok",
                            !.results = <<[size |-> Len(cache)]>>]
    /\ UNCHANGED <<kind, vectors, cache, snapshot, vault, excludedFolders, cluster,
                   synth, suggested, saved, clock, plugin, embeds, reloads>>

\* the embedding files at two moments
CacheSnapshots ==
    {<<>>,
     <<[noteId |-> "n1", notePath |-> Path(F1), vector |-> <<1, 0>>]>>,
     <<[noteId |-> "n1", notePath |-> Path(F1), vector |-> <<3, 4>>],
       [noteId |-> "n2", notePath |-> Path(F2), vector |-> <<1, 0>>]>>}

CacheSearchOptions == OptionsOf({MaxLimit}, {0 - SCALE}, {<<>>})

InitCache ==
    /\ kind = "vault"
    /\ vectors = <<>>
    /\ cache = <<>>
    /\ snapshot \in CacheSnapshots
    /\ vault = FilePool
    /\ excludedFolders = {}
    /\ call = Idle
    /\ cluster = NoCluster
    /\ synth = NoSynth
    /\ suggested = NoSuggested
    /\ saved = NoSaved
    /\ clock = [NoClock EXCEPT !.now = StartOfTime]
    /\ embeds = NoEmbeds
    /\ reloads = NoReloads
    /\ plugin = NoPlugin

NextCache ==
    \/ \E ms \in {1, CACHE_TTL_MS} : Tick(ms)
    \/ \E s \in CacheSnapshots : SnapshotWrite(s)
    \/ Initialize
    \/ GetStats
    \/ Refresh
    \/ \E id \in NoteIds : GetCall(id)
    \/ SizeCall
    \/ \E q \in QueryPool, o \in CacheSearchOptions : SearchCall(q, o)
    \/ ReturnCall

SpecCache == InitCache /\ [][NextCache]_vars

----------------------------------------------------------------------------
(* Claim about the read-through index's TTL: C18 *)

\* C18: get, search and size are never answered from a cache that was loaded
\* more than the TTL before the call
C18_NoStaleAnswer ==
    (call.op \in {"get", "search", "size"} /\ cache # <<>>) =>
        clock.now - clock.lastCacheUpdate <= CACHE_TTL_MS

----------------------------------------------------------------------------
(* Claim about failures while suggesting: C19 *)

\* C19: a suggest call never ends by raising: a clustering step that fails for
\* one tag, folder or seed leaves the call running or done, with the
\* suggestions found for the others
C19_FailureDegrades ==
    suggested # NoSuggested => suggested.status \in {"running", "done"}

----------------------------------------------------------------------------
(* The plugin: settings and the wiring of the use cases *)

Providers == {"openai", "claude"}

\* an API key of the settings; "" is a key that was never entered or was erased
ApiKeys == {"", "k1", "k2"}

\* the plugin after construction and loadSettings: every service is null (<<>>)
Constructed(provider, apiKeys) ==
    [status |-> "constructed", provider |-> provider, apiKeys |-> apiKeys,
     embeddingProvider |-> <<>>, embeddingService |-> <<>>,
     synthesisGenerator |-> <<>>, clusterNotesUseCase |-> <<>>,
     synthesizeNotesUseCase |-> <<>>, suggestSynthesisUseCase |-> <<>>]

\* initializeServices reached its try block
Configured(p) == p.apiKeys[p.provider] # ""

\* vectorStore.isAvailable() after the store was built: an InMemoryVectorStore
\* is not asked, a VaultEmbeddingsVectorStore holds what initialize loaded
StoreAvailable(readable) ==
    kind = "memory" \/ LoadFromVaultEmbeddings(readable).cache # <<>>

\* initializeServices: the fields of the plugin after the call
InitializeServices(p, readable) ==
    IF ~Configured(p) THEN p
    ELSE
        LET llmApiKey == p.apiKeys[p.provider]
            openaiApiKey == p.apiKeys["openai"]
            embeddingProvider ==
                IF openaiApiKey # "" THEN <<[apiKey |-> openaiApiKey]>> ELSE <<>>
            embeddingService ==
                IF embeddingProvider # <<>> /\ StoreAvailable(readable)
                THEN <<[embeddingProvider |-> embeddingProvider[1]]>> ELSE <<>>
            synthesisGenerator == <<[provider |-> p.provider, apiKey |-> llmApiKey]>>
            clusterNotesUseCase ==
                IF embeddingService # <<>>
                THEN <<[embeddingService |-> embeddingService[1]]>>
                ELSE p.clusterNotesUseCase
            suggestSynthesisUseCase ==
                IF clusterNotesUseCase # <<>>
                THEN <<[clusterNotesUseCase |-> clusterNotesUseCase[1]]>>
                ELSE p.suggestSynthesisUseCase
        IN  [p EXCEPT !.embeddingProvider = embeddingProvider,
                      !.embeddingService = embeddingService,
                      !.synthesisGenerator = synthesisGenerator,
                      !.clusterNotesUseCase = clusterNotesUseCase,
                      !.synthesizeNotesUseCase =
                          <<[synthesisGenerator |-> synthesisGenerator[1]]>>,
                      !.suggestSynthesisUseCase = suggestSynthesisUseCase]

\* saveSettings (and onload): initializeServices on the settings p holds, with
\* the vector store it builds
Reinitialize(p) ==
    \E readable \in BOOLEAN :
        LET loaded == LoadFromVaultEmbeddings(readable)
            built == Configured(p)
        IN  /\ plugin' = [InitializeServices(p, readable) EXCEPT !.status = "loaded"]
            /\ vectors' = IF built /\ kind = "memory" THEN <<>> ELSE vectors
            /\ cache' = IF built /\ kind = "vault" THEN loaded.cache ELSE cache
            /\ clock' = IF built /\ kind = "vault"
                        THEN [clock EXCEPT !.lastCacheUpdate = loaded.lastCacheUpdate,
                                           !.initialized = TRUE]
                        ELSE clock
            /\ UNCHANGED <<kind, snapshot, vault, excludedFolders, call, cluster,
                           synth, suggested, saved, embeds, reloads>>

\* onload: loadSettings, then initializeServices
Onload ==
    /\ plugin.status = "constructed"
    /\ Reinitialize(plugin)

\* the settings tab: another provider is selected and saved
SetProvider(provider) ==
    /\ plugin.status = "loaded"
    /\ provider # plugin.provider
    /\ Reinitialize([plugin EXCEPT !.provider = provider])

\* the settings tab: the key of the selected provider is edited and saved
SetApiKey(value) ==
    /\ plugin.status = "loaded"
    /\ value # plugin.apiKeys[plugin.provider]
    /\ Reinitialize([plugin EXCEPT !.apiKeys[plugin.provider] = value])

\* the settings tab: the OpenAI key for embeddings is edited and saved
SetOpenAIApiKey(value) ==
    /\ plugin.status = "loaded"
    /\ value # plugin.apiKeys["openai"]
    /\ Reinitialize([plugin EXCEPT !.apiKeys["openai"] = value])

InitSettings ==
    /\ kind \in {"memory", "vault"}
    /\ vectors = <<>>
    /\ cache = <<>>
    /\ snapshot \in IF kind = "vault" THEN CacheSnapshots ELSE {<<>>}
    /\ vault = FilePool
    /\ excludedFolders = {}
    /\ call = Idle
    /\ cluster = NoCluster
    /\ synth = NoSynth
    /\ suggested = NoSuggested
    /\ saved = NoSaved
    /\ clock = [NoClock EXCEPT !.now = StartOfTime]
    /\ embeds = NoEmbeds
    /\ reloads = NoReloads
    /\ plugin \in {Constructed(provider, apiKeys) :
                      provider \in Providers, apiKeys \in [Providers -> ApiKeys]}

NextSettings ==
    \/ Onload
    \/ \E provider \in Providers : SetProvider(provider)
    \/ \E value \in ApiKeys : SetApiKey(value)
    \/ \E value \in ApiKeys : SetOpenAIApiKey(value)
    \/ \E s \in CacheSnapshots : kind = "vault" /\ SnapshotWrite(s)

SpecSettings == InitSettings /\ [][NextSettings]_vars

----------------------------------------------------------------------------
(* Claim about the wiring after settings saves: C20 *)

\* C20: once loaded, the suggestion use case is wired only while the settings
\* hold an OpenAI key, and the synthesis use case only while they hold a key
\* for the selected provider; each is built from the keys the settings hold
C20_MissingCredentialsDisable ==
    plugin.status = "loaded" =>
        /\ plugin.suggestSynthesisUseCase # <<>> =>
              /\ plugin.apiKeys["openai"] # ""
              /\ plugin.suggestSynthesisUseCase[1].clusterNotesUseCase
                    .embeddingService.embeddingProvider.apiKey
                    = plugin.apiKeys["openai"]
        /\ plugin.synthesizeNotesUseCase # <<>> =>
              /\ plugin.apiKeys[plugin.provider] # ""
              /\ plugin.synthesizeNotesUseCase[1].synthesisGenerator
                    = [provider |-> plugin.provider,
                       apiKey |-> plugin.apiKeys[plugin.provider]]

----------------------------------------------------------------------------
(* Clustering over an index that was filled earlier *)

\* the seed and four notes of folder d along one direction, one note further off
FilledIndex ==
    <<Entry(F1, <<1, 0>>), Entry(F5, <<1, 0>>), Entry(F6, <<1, 0>>),
      Entry(F7, <<1, 0>>), Entry(F8, <<1, 0>>), Entry(F2, <<3, 4>>)>>

\* two notes whose similarity is 0.28, below the default threshold of search
LowIndex == <<Entry(F1, <<1, 0>>), Entry(F4, <<7, 24>>)>>

IndexedIndexes == {FilledIndex, LowIndex}

\* every file but the second n1, and the same vault after d/n4.md was deleted
IndexedVaults == {SuggestVault, SuggestVault \ {F5}}

\* "n8" has no vector in either index, "n9" names no file
IndexedSeeds == {"n1", "n4", "n8", "n9"}

IndexedManualIds == {"n1", "n3"}

InitIndexed ==
    /\ kind \in {"memory", "vault"}
    /\ \E index \in IndexedIndexes :
          /\ vectors = IF kind = "memory" THEN index ELSE <<>>
          /\ cache = IF kind = "vault" THEN index ELSE <<>>
          /\ snapshot = IF kind = "vault" THEN index ELSE <<>>
    /\ vault \in IndexedVaults
    /\ excludedFolders = {}
    /\ call = Idle
    /\ cluster = NoCluster
    /\ synth = NoSynth
    /\ suggested = NoSuggested
    /\ saved = NoSaved
    /\ clock = NoClock
    /\ embeds = NoEmbeds
    /\ reloads = NoReloads
    /\ plugin = NoPlugin

NextIndexed ==
    \/ \E folders \in {{}, {FolderD}} : SetExcludedFolders(folders)
    \/ \E folder \in {FolderA, FolderC} : ClusterByFolder(folder)
    \/ \E noteIds \in Seqs(IndexedManualIds, MaxManual) : CreateManualCluster(noteIds)
    \/ \E seedNoteId \in IndexedSeeds, threshold \in ClusterThresholds,
          maxSize \in 1..MaxSize :
          AutoCluster(seedNoteId, threshold, maxSize)
    \/ Return

SpecIndexed == InitIndexed /\ [][NextIndexed]_vars

----------------------------------------------------------------------------
(* Claims about autoCluster and coherence: C21 - C23, C30 *)

\* the seed of the autoCluster call names no document, or a document under an
\* excluded folder
SeedRefused(seedNoteId) ==
    \/ \A f \in vault : f.basename # seedNoteId
    \/ UnderExcluded(GetNote(seedNoteId)[1].notePath)

NearestMembers(i) ==
    LET n == Len(cluster.members)
        nearest == FindSimilarByNoteId(StoreMap, cluster.members[i].noteId,
                                       [limit |-> n - 1, threshold |-> 0 - SCALE]).results
        IsMember(r) == \E j \in 1..n : cluster.members[j].noteId = r.noteId
    IN  SelectSeq(nearest, IsMember)

RECURSIVE NearestTotal(_)
NearestTotal(i) ==
    IF i = 0 THEN [total |-> 0, pairs |-> 0]
    ELSE LET rest == NearestTotal(i - 1)
         IN  [total |-> rest.total + SumSimilarity(NearestMembers(i)),
              pairs |-> rest.pairs + Len(NearestMembers(i))]

\* C22: the coherence of a tag, folder or manual cluster of two or more
\* members is the mean similarity over the pairs (member, neighbour) whose
\* neighbour is a member among that member's n - 1 nearest stored vectors,
\* with no similarity floor, and 0 when there is no such pair
C22_CoherenceIsMeanOverNearest ==
    (/\ ClusterReturned
     /\ cluster.op \in {"clusterByTag", "clusterByFolder", "createManualCluster"}
     /\ Len(cluster.members) >= 2) =>
        LET sum == NearestTotal(Len(cluster.members))
        IN  IF sum.pairs = 0 THEN cluster.coherenceScore.num = 0
            ELSE cluster.coherenceScore.num * sum.pairs
                    = sum.total * cluster.coherenceScore.den

\* the members of an autoCluster cluster after the seed
OtherMembers == SubSeq(cluster.members, 2, Len(cluster.members))

\* C23: for maxSize of 2 or more, the members after the seed are the
\* min(maxSize - 1, E) most similar of the E eligible neighbours: stored vectors
\* of other notes, at or above the threshold, not under an excluded folder
C23_NearestEligibleAreMembers ==
    (/\ ClusterReturned
     /\ cluster.op = "autoCluster"
     /\ cluster.maxSize >= 2
     /\ cluster.members # <<>>) =>
        /\ Len(OtherMembers) = Min(cluster.maxSize - 1, Cardinality(SeedCandidates))
        /\ \A k \in 1..Len(OtherMembers) :
              \E i \in SeedCandidates : StoreMap[i].noteId = OtherMembers[k].noteId
        /\ \A i \in SeedCandidates :
              (\A k \in 1..Len(OtherMembers) :
                    OtherMembers[k].noteId # StoreMap[i].noteId) =>
                 \A k \in 1..Len(OtherMembers) :
                    OtherMembers[k].similarity
                       >= Cosine(MapGet(StoreMap, cluster.input).vector,
                                 StoreMap[i].vector)

\* C30: every member of a cluster returned by autoCluster resolves in the
\* Document Store by its path
C30_MembersResolve ==
    (ClusterReturned /\ cluster.op = "autoCluster") =>
        \A i \in 1..Len(cluster.members) :
            GetNoteByPath(cluster.members[i].notePath) # <<>>

----------------------------------------------------------------------------
(* Claim about the clusters that are suggested: C28 *)

\* minClusterSize of the call: the caller's, or 3
MinClusterSizeOfCall ==
    IF "minClusterSize" \in DOMAIN suggested.options
    THEN suggested.options.minClusterSize ELSE 3

\* minCoherence of the call, in units of 1/SCALE: the caller's, or 0.4 by
\* tags, 0.3 by folders, 0.5 by similarity
MinCoherenceOfCall ==
    IF "minCoherence" \in DOMAIN suggested.options THEN suggested.options.minCoherence
    ELSE CASE suggested.op = "suggestByTags" -> (40 * SCALE) \div 100
           [] suggested.op = "suggestByFolders" -> (30 * SCALE) \div 100
           [] OTHER -> (50 * SCALE) \div 100

\* C28 as stated: every returned suggestion wraps a cluster of at least
\* minClusterSize members and of coherence at least minCoherence, and never an
\* empty cluster
C28_SuggestedClustersQualify ==
    SuggestionsReturned =>
        \A i \in 1..Len(suggested.result) :
            LET c == suggested.result[i].cluster
            IN  /\ Len(c.members) >= MinClusterSizeOfCall
                /\ c.coherenceScore.num >= MinCoherenceOfCall * c.coherenceScore.den
                /\ c.members # <<>>

\* C28 as amended: every returned suggestion wraps a cluster of at least
\* minClusterSize members and of coherence at least minCoherence; an empty
\* cluster is never suggested when minClusterSize is 1 or more
C28_QualifyAndNonEmptyAboveZero ==
    SuggestionsReturned =>
        \A i \in 1..Len(suggested.result) :
            LET c == suggested.result[i].cluster
            IN  /\ Len(c.members) >= MinClusterSizeOfCall
                /\ c.coherenceScore.num >= MinCoherenceOfCall * c.coherenceScore.den
                /\ MinClusterSizeOfCall >= 1 => c.members # <<>>

\* suggestBySimilarity with the default options returned a suggestion and
\* left out the cluster of another seed
C28_Witness ==
    /\ SuggestionsReturned
    /\ suggested.op = "suggestBySimilarity"
    /\ suggested.options = <<>>
    /\ suggested.result # <<>>
    /\ Len(suggested.found) < Len(suggested.input)

----------------------------------------------------------------------------
(* deduplicateSuggestions on its own, over note ids that may hold a ',' *)

MaxRanked == 2

\* basenames of three files: "a.md", "b.md" and "a,b.md"
DedupIds == {"a", "b", "a,b"}

\* the members autoCluster builds for these ids, the seed first
DedupMembers(noteIds) ==
    [i \in 1..Len(noteIds) |->
        [noteId |-> noteIds[i], notePath |-> <<noteIds[i], ".md">>,
         title |-> noteIds[i], similarity |-> SCALE]]

\* a suggestion of suggestBySimilarity for a cluster of these members
DedupSuggestion(noteIds) ==
    Suggestion(Returned("autoCluster", noteIds[1], SUGGEST_THRESHOLD, SUGGEST_MAX_SIZE,
                        "similarity", DedupMembers(noteIds), One),
               "suggestAll")

\* the ids of one cluster are distinct: the index holds one vector per id
DedupPool ==
    {DedupSuggestion(ids) :
        ids \in {s \in Seqs(DedupIds, 2) : s # <<>> /\ Distinct(s)}}

\* suggestAll holds the list suggestBySimilarity returned
InitDedup ==
    /\ kind = "memory"
    /\ vectors = <<>>
    /\ cache = <<>>
    /\ snapshot = <<>>
    /\ vault = {}
    /\ excludedFolders = {}
    /\ call = Idle
    /\ cluster = NoCluster
    /\ synth = NoSynth
    /\ suggested \in {[status |-> "running", op |-> "suggestAll", input |-> <<>>,
                       options |-> <<>>, todo |-> <<>>, found |-> ranked,
                       ranked |-> ranked, result |-> <<>>, failedAt |-> <<>>] :
                         ranked \in Seqs(DedupPool, MaxRanked)}
    /\ saved = NoSaved
    /\ clock = NoClock
    /\ embeds = NoEmbeds
    /\ reloads = NoReloads
    /\ plugin = NoPlugin

\* return this.deduplicateSuggestions(similaritySuggestions)
Deduplicate ==
    /\ suggested.status = "running"
    /\ suggested' = [suggested EXCEPT !.status = "done",
                                      !.result = DeduplicateSuggestions(suggested.ranked)]
    /\ UNCHANGED <<kind, vectors, cache, snapshot, vault, excludedFolders, call,
                   cluster, synth, saved, clock, plugin, embeds, reloads>>

NextDedup == Deduplicate

SpecDedup == InitDedup /\ [][NextDedup]_vars

----------------------------------------------------------------------------
(* Claim about the canonical key: C29 *)

\* C29: a suggestion whose member-id set differs from the set of every
\* earlier suggestion is kept by deduplicateSuggestions
C29_DistinctSetsKept ==
    SuggestionsReturned =>
        \A i \in 1..Len(suggested.ranked) :
            (\A k \in 1..(i - 1) :
                  IdSet(suggested.ranked[k]) # IdSet(suggested.ranked[i])) =>
               \E j \in 1..Len(suggested.result) :
                  suggested.result[j] = suggested.ranked[i]

----------------------------------------------------------------------------
(* EmbeddingService, one await at a time: calls that overlap *)

\* const batchSize = 10
BATCH_SIZE == 10

\* the embedNote / embedNotes calls made in one behaviour
MaxTasks == 2

\* the ids of the documents handed to the service
EmbedIds == <<"n1", "n2", "n3", "n4", "n5", "n6", "n7", "n8", "n9", "n10",
              "n11", "n12">>

\* an EmbedNoteInput
EmbedInput(noteId) == [noteId |-> noteId, notePath |-> <<noteId, ".", "m", "d">>]

\* the input lists of the embedNotes calls: one batch, and more than one batch
EmbedInputLists ==
    {[i \in 1..n |-> EmbedInput(EmbedIds[i])] : n \in {0, 2, BATCH_SIZE + 2}}

\* the index before the first call: empty, or already holding a document
EmbedStores ==
    {<<>>, <<[noteId |-> "n2", notePath |-> <<"n2", ".", "m", "d">>,
              vector |-> <<3, 4>>]>>}

Batch_Unbounded(toEmbed, i) == SubSeq(toEmbed, i + 1, Len(toEmbed))

\* toEmbed.slice(i, i + batchSize)
Batch(toEmbed, i) == SubSeq(toEmbed, i + 1, Min(i + BATCH_SIZE, Len(toEmbed)))

IdsOf(inputs) == [j \in 1..Len(inputs) |-> inputs[j].noteId]

\* the provider is asked to embed the texts of these inputs
Requested(t, inputs) == [ev |-> "request", task |-> t, ids |-> IdsOf(inputs)]

\* the provider's promise settles
Responded(t, ok) == [ev |-> "response", task |-> t, ok |-> ok]

\* vectorStore.store, one entry per input of the batch, as the index stood
\* before the batch was stored
Stored(t, m, inputs) ==
    [j \in 1..Len(inputs) |->
        [ev |-> "store", task |-> t, noteId |-> inputs[j].noteId,
         existed |-> MapHas(m, inputs[j].noteId)]]

\* what the provider answers to one request: failure, or one vector per text
\* (the same vector for each text of the request)
EmbedAnswers ==
    {[ok |-> TRUE, vector |-> v] : v \in {<<1, 0>>, <<-1, 0>>}}
        \cup {[ok |-> FALSE, vector |-> <<>>]}

\* the vectors of an answer to a request for n texts
VectorsOf(resp, n) == [j \in 1..n |-> resp.vector]

InitEmbed ==
    /\ kind = "memory"
    /\ vectors \in EmbedStores
    /\ cache = <<>>
    /\ snapshot = <<>>
    /\ vault = FilePool
    /\ excludedFolders = {}
    /\ call = Idle
    /\ cluster = NoCluster
    /\ synth = NoSynth
    /\ suggested = NoSuggested
    /\ saved = NoSaved
    /\ clock = NoClock
    /\ embeds = NoEmbeds
    /\ reloads = NoReloads
    /\ plugin = NoPlugin

\* embedNote up to its await: the index is asked, then the provider
EmbedNoteCall(input) ==
    /\ Len(embeds.tasks) < MaxTasks
    /\ LET t == Len(embeds.tasks) + 1
       IN  IF MapHas(vectors, input.noteId)
           THEN embeds' = [embeds EXCEPT !.tasks =
                               Append(@, [op |-> "embedNote", toEmbed |-> <<>>,
                                          i |-> 0, status |-> "done"])]
           ELSE embeds' = [tasks |-> Append(embeds.tasks,
                                        [op |-> "embedNote", toEmbed |-> <<input>>,
                                         i |-> 0, status |-> "waiting"]),
                           log |-> Append(embeds.log, Requested(t, <<input>>))]
    /\ UNCHANGED <<kind, vectors, cache, snapshot, vault, excludedFolders, call,
                   cluster, synth, suggested, saved, clock, plugin, reloads>>

\* embedNote after its await: the vector is stored, or the error is thrown
EmbedNoteResume(t, resp) ==
    /\ t \in 1..Len(embeds.tasks)
    /\ embeds.tasks[t].op = "embedNote"
    /\ embeds.tasks[t].status = "waiting"
    /\ LET task == embeds.tasks[t]
       IN  IF resp.ok
           THEN /\ vectors' = StoreAll(vectors, task.toEmbed, VectorsOf(resp, 1))
                /\ embeds' = [tasks |-> [embeds.tasks EXCEPT ![t].status = "done"],
                              log |-> Append(embeds.log, Responded(t, TRUE))
                                        \o Stored(t, vectors, task.toEmbed)]
           ELSE /\ vectors' = vectors
                /\ embeds' = [tasks |-> [embeds.tasks EXCEPT ![t].status = "failed"],
                              log |-> Append(embeds.log, Responded(t, FALSE))]
    /\ UNCHANGED <<kind, cache, snapshot, vault, excludedFolders, call,
                   cluster, synth, suggested, saved, clock, plugin, reloads>>

\* embedNotes up to its first await: the inputs without a vector are kept and
\* the first batch is sent
EmbedNotesCall(inputs) ==
    /\ Len(embeds.tasks) < MaxTasks
    /\ LET t == Len(embeds.tasks) + 1
           toEmbed == ToEmbed(vectors, inputs)
       IN  IF toEmbed = <<>>
           THEN embeds' = [embeds EXCEPT !.tasks =
                               Append(@, [op |-> "embedNotes", toEmbed |-> <<>>,
                                          i |-> 0, status |-> "done"])]
           ELSE embeds' = [tasks |-> Append(embeds.tasks,
                                        [op |-> "embedNotes", toEmbed |-> toEmbed,
                                         i |-> 0, status |-> "waiting"]),
                           log |-> Append(embeds.log,
                                          Requested(t, Batch(toEmbed, 0)))]
    /\ UNCHANGED <<kind, vectors, cache, snapshot, vault, excludedFolders, call,
                   cluster, synth, suggested, saved, clock, plugin, reloads>>

\* embedNotes after an await: the batch is stored and the next batch is sent,
\* or the loop ends, or the error is thrown
EmbedNotesResume(t, resp) ==
    /\ t \in 1..Len(embeds.tasks)
    /\ embeds.tasks[t].op = "embedNotes"
    /\ embeds.tasks[t].status = "waiting"
    /\ LET task == embeds.tasks[t]
           batch == Batch(task.toEmbed, task.i)
           i == task.i + BATCH_SIZE
       IN  IF ~resp.ok
           THEN /\ vectors' = vectors
                /\ embeds' = [tasks |-> [embeds.tasks EXCEPT ![t].status = "failed"],
                              log |-> Append(embeds.log, Responded(t, FALSE))]
           ELSE /\ vectors' = StoreAll(vectors, batch,
                                        VectorsOf(resp, Len(batch)))
                /\ IF i < Len(task.toEmbed)
                   THEN embeds' =
                            [tasks |-> [embeds.tasks EXCEPT ![t].i = i],
                             log |-> Append(Append(embeds.log, Responded(t, TRUE))
                                                \o Stored(t, vectors, batch),
                                            Requested(t, Batch(task.toEmbed, i)))]
                   ELSE embeds' =
                            [tasks |-> [embeds.tasks EXCEPT ![t].i = i,
                                                            ![t].status = "done"],
                             log |-> Append(embeds.log, Responded(t, TRUE))
                                        \o Stored(t, vectors, batch)]
    /\ UNCHANGED <<kind, cache, snapshot, vault, excludedFolders, call,
                   cluster, synth, suggested, saved, clock, plugin, reloads>>

NextEmbed ==
    \/ \E n \in 1..3 : EmbedNoteCall(EmbedInput(EmbedIds[n]))
    \/ \E inputs \in EmbedInputLists : EmbedNotesCall(inputs)
    \/ \E t \in 1..MaxTasks, resp \in EmbedAnswers : EmbedNoteResume(t, resp)
    \/ \E t \in 1..MaxTasks, resp \in EmbedAnswers : EmbedNotesResume(t, resp)

SpecEmbed == InitEmbed /\ [][NextEmbed]_vars

----------------------------------------------------------------------------
(* Claims about embedding: C24, C25 *)

\* the places of the log where the provider is asked for this document
RequestsFor(noteId) ==
    {pj \in (1..Len(embeds.log)) \X (1..Len(EmbedIds)) :
        /\ embeds.log[pj[1]].ev = "request"
        /\ pj[2] <= Len(embeds.log[pj[1]].ids)
        /\ embeds.log[pj[1]].ids[pj[2]] = noteId}

\* C24: whatever the order and the overlap of the embedNote / embedNotes calls,
\* the provider is asked for each document id at most once, and no store
\* replaces a vector that was already in the index
C24_AtMostOncePerId ==
    /\ \A noteId \in Range(EmbedIds) : Cardinality(RequestsFor(noteId)) <= 1
    /\ \A p \in 1..Len(embeds.log) :
            embeds.log[p].ev = "store" => ~embeds.log[p].existed

\* what one call did, in order
TaskLog(t) == LET Mine(e) == e.task = t IN SelectSeq(embeds.log, Mine)

\* how many events of this kind are among the first p of a log
CountEv(l, p, ev) == Cardinality({q \in 1..p : l[q].ev = ev})

\* C25: the requests of one embedNotes call are the consecutive slices of at
\* most 10 of its documents without a vector, in input order; a request is
\* sent only after every earlier request was answered and its batch stored, so
\* at most one is in flight; nothing follows a failed request, and what earlier
\* batches stored is still in the index
C25_BatchesInSequence ==
    \A t \in 1..Len(embeds.tasks) :
        embeds.tasks[t].op = "embedNotes" =>
            LET l == TaskLog(t)
                ids == IdsOf(embeds.tasks[t].toEmbed)
                n == Len(ids)
            IN  /\ \A p \in 1..Len(l) :
                      /\ l[p].ev = "request" =>
                            LET j == CountEv(l, p, "request")
                                from == BATCH_SIZE * (j - 1)
                            IN  /\ from < n
                                /\ Len(l[p].ids) <= BATCH_SIZE
                                /\ l[p].ids = SubSeq(ids, from + 1,
                                                     Min(from + BATCH_SIZE, n))
                                /\ CountEv(l, p, "response") = j - 1
                                /\ \A k \in 1..from :
                                      \E q \in 1..(p - 1) :
                                          /\ l[q].ev = "store"
                                          /\ l[q].noteId = ids[k]
                      /\ (l[p].ev = "response" /\ ~l[p].ok) => p = Len(l)
                      /\ l[p].ev = "store" => MapHas(vectors, l[p].noteId)
                      /\ CountEv(l, p, "request") - CountEv(l, p, "response")
                            \in {0, 1}
                /\ embeds.tasks[t].status = "done" =>
                      BATCH_SIZE * CountEv(l, Len(l), "request") >= n

\* an embedNotes call whose first batch was stored and whose second batch failed
C25_Witness ==
    \E t \in 1..Len(embeds.tasks) :
        /\ embeds.tasks[t].op = "embedNotes"
        /\ embeds.tasks[t].status = "failed"
        /\ embeds.tasks[t].i = BATCH_SIZE
        /\ CountEv(TaskLog(t), Len(TaskLog(t)), "request") = 2
        /\ MapHas(vectors, "n1")

----------------------------------------------------------------------------
(* loadFromVaultEmbeddings, one await at a time: reloads that overlap *)

\* the loadFromVaultEmbeddings calls made in one behaviour
MaxReloads == 2

\* the times the embedding files are rewritten in one behaviour
MaxWrites == 1

\* index.json: a file that parses, no file, or a file JSON.parse rejects
IndexFiles == {"present", "missing", "corrupt"}

\* the callers of loadFromVaultEmbeddings
Callers == {"refresh", "initialize", "getStats"}

\* whether the caller reaches loadFromVaultEmbeddings
Reloads(via) ==
    CASE via = "refresh" -> TRUE
      [] via = "initialize" -> ~(clock.initialized /\ ~IsCacheStale)
      [] OTHER -> IsCacheStale

\* Object.entries(index.notes): the ids and paths index.json lists
IndexEntries ==
    [j \in 1..Len(snapshot) |->
        [noteId |-> snapshot[j].noteId, notePath |-> snapshot[j].notePath]]

\* the loop runs on to the next entry whose embedding file exists: the turns
\* that end in 'continue' have no await
NextFile(index, k) ==
    LET there == {j \in (k + 1)..Len(index) : MapHas(snapshot, index[j].noteId)}
    IN  IF there = {} THEN Len(index) + 1
        ELSE CHOOSE j \in there : \A i \in there : j <= i

CacheWhileLoading_InPlace(current, newCache) == newCache

\* this.cache while the loop fills newCache, a Map of its own
CacheWhileLoading(current, newCache) == current

Assigned_Merged(current, newCache) ==
    LET Gone(e) == ~MapHas(newCache, e.noteId) IN newCache \o SelectSeq(current, Gone)

\* this.cache = newCache
Assigned(current, newCache) == newCache

\* the calls that have not returned
Running == {t \in 1..Len(reloads.tasks) : reloads.tasks[t].pc # "done"}

\* the end of a call: the cache is replaced (ok) or cleared, the time of the
\* load is noted (ok), and the caller goes on: task is the call as it ends,
\* tasks the calls with this one in its place
Settled(t, task, tasks, ok) ==
    LET after == IF ok THEN Assigned(cache, task.newCache) ELSE <<>>
        done == [task EXCEPT !.pc = "done",
                             !.result = IF ok THEN task.newCache ELSE <<>>,
                             !.stats = IF task.via = "getStats"
                                       THEN <<[isAvailable |-> Len(after) > 0,
                                               totalEmbeddings |-> Len(after)]>>
                                       ELSE <<>>]
    IN  /\ cache' = after
        /\ clock' = [clock EXCEPT
                        !.lastCacheUpdate = IF ok THEN clock.now ELSE @,
                        !.initialized = IF task.via = "initialize" THEN TRUE ELSE @]
        /\ reloads' = [reloads EXCEPT !.tasks = [tasks EXCEPT ![t] = done],
                                      !.finished = Append(@, t)]

InitReload ==
    /\ kind = "vault"
    /\ vectors = <<>>
    /\ cache = <<>>
    /\ snapshot \in CacheSnapshots
    /\ vault = FilePool
    /\ excludedFolders = {}
    /\ call = Idle
    /\ cluster = NoCluster
    /\ synth = NoSynth
    /\ suggested = NoSuggested
    /\ saved = NoSaved
    /\ clock = [NoClock EXCEPT !.now = StartOfTime]
    /\ embeds = NoEmbeds
    /\ reloads \in {[NoReloads EXCEPT !.indexFile = f] : f \in IndexFiles}
    /\ plugin = NoPlugin

\* refresh, initialize or getStats up to the first await of
\* loadFromVaultEmbeddings: without index.json the cache is cleared at once
ReloadCall(via) ==
    /\ Len(reloads.tasks) < MaxReloads
    /\ Reloads(via)
    /\ LET t == Len(reloads.tasks) + 1
           task == [via |-> via, pc |-> "index", index |-> <<>>, k |-> 0,
                    newCache |-> <<>>, sawChange |-> FALSE, during |-> Running,
                    result |-> <<>>, stats |-> <<>>]
           tasks == Append(reloads.tasks, task)
       IN  IF reloads.indexFile = "missing"
           THEN Settled(t, task, tasks, FALSE)
           ELSE /\ reloads' = [reloads EXCEPT !.tasks = tasks]
                /\ UNCHANGED <<cache, clock>>
    /\ UNCHANGED <<kind, vectors, snapshot, vault, excludedFolders, call,
                   cluster, synth, suggested, saved, plugin, embeds>>

\* after the read of index.json: the index is parsed (or the call ends in the
\* outer catch) and the loop runs to its first embedding file
IndexRead(t) ==
    /\ t \in Running
    /\ reloads.tasks[t].pc = "index"
    /\ LET k == NextFile(IndexEntries, 0)
           task == [reloads.tasks[t] EXCEPT !.pc = "file", !.index = IndexEntries,
                                            !.k = k]
       IN  IF reloads.indexFile # "present"
           THEN Settled(t, reloads.tasks[t], reloads.tasks, FALSE)
           ELSE IF k > Len(IndexEntries)
           THEN Settled(t, task, reloads.tasks, TRUE)
           ELSE /\ reloads' = [reloads EXCEPT !.tasks[t] = task]
                /\ cache' = CacheWhileLoading(cache, task.newCache)
                /\ UNCHANGED clock
    /\ UNCHANGED <<kind, vectors, snapshot, vault, excludedFolders, call,
                   cluster, synth, suggested, saved, plugin, embeds>>

\* after the read of one embedding file: the entry is put in newCache (a file
\* that has gone is skipped) and the loop runs to the next file or to its end
FileRead(t) ==
    /\ t \in Running
    /\ reloads.tasks[t].pc = "file"
    /\ LET old == reloads.tasks[t]
           entry == old.index[old.k]
           newCache == IF MapHas(snapshot, entry.noteId)
                       THEN MapSet(old.newCache,
                                   [noteId |-> entry.noteId,
                                    notePath |-> entry.notePath,
                                    vector |-> MapGet(snapshot, entry.noteId).vector])
                       ELSE old.newCache
           k == NextFile(old.index, old.k)
           task == [old EXCEPT !.newCache = newCache, !.k = k]
       IN  IF k > Len(old.index)
           THEN Settled(t, task, reloads.tasks, TRUE)
           ELSE /\ reloads' = [reloads EXCEPT !.tasks[t] = task]
                /\ cache' = CacheWhileLoading(cache, newCache)
                /\ UNCHANGED clock
    /\ UNCHANGED <<kind, vectors, snapshot, vault, excludedFolders, call,
                   cluster, synth, suggested, saved, plugin, embeds>>

\* the plugin that owns the embedding files rewrites them while calls may be
\* waiting for their reads
ExternalWrite(s, f) ==
    /\ reloads.writes < MaxWrites
    /\ <<s, f>> # <<snapshot, reloads.indexFile>>
    /\ snapshot' = s
    /\ reloads' = [reloads EXCEPT
                      !.indexFile = f,
                      !.writes = @ + 1,
                      !.tasks = [t \in 1..Len(reloads.tasks) |->
                                    IF t \in Running
                                    THEN [reloads.tasks[t] EXCEPT !.sawChange = TRUE]
                                    ELSE reloads.tasks[t]]]
    /\ UNCHANGED <<kind, vectors, cache, vault, excludedFolders, call, cluster,
                   synth, suggested, saved, clock, plugin, embeds>>

NextReload ==
    \/ \E via \in Callers : ReloadCall(via)
    \/ \E t \in 1..MaxReloads : IndexRead(t)
    \/ \E t \in 1..MaxReloads : FileRead(t)
    \/ \E s \in CacheSnapshots, f \in IndexFiles : ExternalWrite(s, f)
    \/ \E id \in {"n1", "n2"} : GetCall(id)
    \/ SizeCall
    \/ SearchCall(<<1, 0>>, [threshold |-> 0 - SCALE])
    \/ ReturnCall

SpecReload == InitReload /\ [][NextReload]_vars

----------------------------------------------------------------------------
(* Claims about overlapping reloads: C26, C27 *)

\* two calls that were both running at some moment
Overlapped(tasks, t1, t2) == t1 \in tasks[t2].during \/ t2 \in tasks[t1].during

\* every call has returned, two of them overlapped, and the embedding files
\* were not rewritten while any of them ran
OverlapOverOneSnapshot(tasks) ==
    /\ \A t \in 1..Len(tasks) : tasks[t].pc = "done" /\ ~tasks[t].sawChange
    /\ \E t1, t2 \in 1..Len(tasks) : t1 # t2 /\ Overlapped(tasks, t1, t2)

\* C26: when a reload returns, the cache holds what that reload built (nothing
\* after a failure); and when it is the last of reloads that overlapped while
\* the embedding files stayed as they were, the cache holds what one reload of
\* these files gives
C26_OverlappingReloadsAgree ==
    [][Len(reloads'.finished) > Len(reloads.finished) =>
          /\ cache' = reloads'.tasks[reloads'.finished[Len(reloads'.finished)]].result
          /\ OverlapOverOneSnapshot(reloads'.tasks) =>
                cache' = LoadFromVaultEmbeddings(reloads.indexFile = "present").cache
      ]_vars

\* two reloads of a two-entry snapshot overlapped and have both returned
C26_Witness ==
    /\ Len(reloads.tasks) = 2
    /\ OverlapOverOneSnapshot(reloads.tasks)
    /\ reloads.writes = 0
    /\ Len(snapshot) = 2
    /\ cache = snapshot

\* the caches a reader may see: the empty one (before the first load, or
\* after a failed one) and those that finished reloads built
CompleteCaches ==
    {<<>>} \cup {reloads.tasks[t].result :
                    t \in {u \in 1..Len(reloads.tasks) : reloads.tasks[u].pc = "done"}}

\* C27: at every moment, also between the reads of a reload in progress, the
\* cache is empty or is one that a finished reload built, and get, size and
\* search were answered from such a cache
C27_NoPartialSnapshot ==
    /\ cache \in CompleteCaches
    /\ call.op = "get" =>
          \E c \in CompleteCaches :
              call.results = IF MapHas(c, call.noteId)
                             THEN <<MapGet(c, call.noteId)>> ELSE <<>>
    /\ call.op = "size" =>
          \E c \in CompleteCaches : call.results = <<[size |-> Len(c)]>>
    /\ call.op = "search" =>
          \E c \in CompleteCaches :
              call.results = Search(c, call.queryVector, call.options).results

\* get is answered with an entry of the earlier cache while a reload has put
\* one of the two entries of the rewritten snapshot in its newCache
C27_Witness ==
    /\ call.op = "get"
    /\ call.results # <<>>
    /\ \E t \in Running :
          /\ reloads.tasks[t].pc = "file"
          /\ Len(reloads.tasks[t].index) = 2
          /\ Len(reloads.tasks[t].newCache) = 1
          /\ call.results[1].noteId = reloads.tasks[t].newCache[1].noteId
          /\ call.results[1] # reloads.tasks[t].newCache[1]

====
